---- MODULE Spec2Model ----
(***************************************************************************)
(* Open-Hedge: a model of the client's debounced remote search boxes and   *)
(* of the session-gated portfolio CRUD on the profile JSON document.       *)
(*                                                                         *)
(* The specifications of this module:                                     *)
(*   SearchSpec     one search box (Navbar, MyPortfolio, StockRankings or  *)
(*                  App), its debounce timer and its requests in flight;   *)
(*   PortfolioSpec  one browser tab of MyPortfolio: sign-in and sign-out,  *)
(*                  loading, adding and removing positions;                *)
(*   TwoTabSpec     two tabs of one user adding positions concurrently to  *)
(*                  the shared remote profile document;                    *)
(*   EnsureSpec     the Navbar's ensureProfileExists calls of one user;    *)
(*   FundSpec       the fund-detail view: report periods, holdings rows    *)
(*                  and their change against the previous record;          *)
(*   HoldersSpec    the stock-detail holders table and its QoQ change;     *)
(*   TableSpec      one sortable table: its sort clicks and, for the       *)
(*                  infinite-scroll tables, its batch requests;            *)
(*   OptionsSpec    SearchSpec with the search box of the earlier          *)
(*                  MyPortfolio added;                                     *)
(*   ChangeSortSpec the paginated Dashboard with its client-side Change    *)
(*                  sort;                                                  *)
(*   AppSpec        App's view state with the Navbar that debounces        *)
(*                  through window.searchTimer;                            *)
(*   StockSpec      the stock-detail view: concurrent ticker searches,     *)
(*                  the price series and what is displayed.                *)
(* Strings are sequences of characters; time is counted in milliseconds.   *)
(***************************************************************************)
EXTENDS Integers, Sequences, FiniteSets, TLC

VARIABLES
    \* ---- search box (SearchSpec) ----
    box,            \* which component the search box belongs to
    inputValue,     \* inputValue / tickerInput / searchTerm state
    selectedAsset,  \* MyPortfolio: selectedAsset state (NoAsset = null)
    options,        \* options / suggestions / searchResults state
    timers,         \* the pending setTimeout callbacks of the search effect
    inflight,       \* requests sent and not yet answered
    elapsed,        \* ms since the search effect last ran (saturates at the delay)
    gen,            \* number of runs of the search effect so far
    rapid,          \* history: every effect run so far came before the delay elapsed
    issued,         \* history: the remote searches issued, in order
    cancelled,      \* history: number of armed timers cleared by a cleanup
    heldBeforeShort, \* history: options right before inputValue last became short
    \* ---- portfolio tabs (PortfolioSpec, TwoTabSpec) ----
    tabs,           \* the browser tabs in which MyPortfolio is mounted
    userDetails,    \* the user_details JSON document of the user's profiles row
    view,           \* per tab: the state of the mounted MyPortfolio component
    addOp,          \* per tab: the handleAddPosition call in progress or last ended
    rmOp,           \* per tab: the handleRemove call in progress or last ended
    loadOp,         \* per tab: the fetchPortfolio started by an auth callback
    nextId,         \* crypto.randomUUID(): ids handed out so far
    \* ---- Navbar sign-in handling (EnsureSpec) ----
    profile,        \* the user's row of the profiles table (NoProfile = no row)
    ensure,         \* per invocation of ensureProfileExists: its position
    inserts,        \* history: number of inserts into profiles issued
    hadProfile,     \* history: the row existed before the first sign-in
    \* ---- fund-detail view, Dashboard (FundSpec) ----
    shareTable,     \* backend: shares held per fund record and symbol (0 = not held)
    selectedFundId, \* selectedFundId state (0 = none)
    holdings,       \* holdings state: the rows shown in the table
    prevHoldingsMap, \* prevHoldingsMap state: symbol -> shares of the previous record
    hasPrevFund,    \* hasPrevFund state
    loadingHoldings, \* loadingHoldings state
    fetches,        \* the fetchData calls awaiting their responses
    sortConfig,     \* sortConfig state of the table: [key, direction]
    \* ---- stock-detail holders table, StockRankings (HoldersSpec) ----
    stakes,         \* backend: shares of the symbol per company and report period
    holders,        \* StockRankings holdings state: the processed row per company
    stockSearch,    \* position of executeSearch: "idle", "loading", "done", "failed"
    \* ---- sortable tables (TableSpec) ----
    table,          \* which table component is mounted
    tableData,      \* fundsData / trendingData / holdings state: the row keys loaded
    page,           \* page state
    hasMore,        \* hasMore state
    loading,        \* loading state (Dashboard: loadingHoldings)
    loadingMore,    \* loadingMore state (TrendingPage, Dashboard)
    searchTerm,     \* searchTerm state
    totalFundValue, \* Dashboard: totalFundValue state
    lastValuation,  \* backend: value_usd of the fund's latest valuation (0 = none)
    mountOp,        \* position of the mount effect and the sort and term it captured
    batches,        \* the batch requests awaiting their responses
    sent,           \* history: number of batch requests sent
    shortSeen,      \* history: a short batch arrived for the query now shown
    lastSent,       \* history: what sent the latest batch request, and its outcome
    lastClicks,     \* history: the last header clicks and the sort before each
    \* ---- stock-detail view (StockSpec) ----
    stockVersion,   \* which version of StockRankings is mounted
    stockView,      \* the state of the component; a datum is the ticker it is of
    stockCalls,     \* the executeSearch calls awaiting their answers
    stockSent,      \* history: number of executeSearch calls
    lastSearched,   \* history: the ticker of the latest executeSearch call
    \* ---- App and the Navbar with window.searchTimer (AppSpec) ----
    app,            \* the state of App and the local search text of the Navbar
    searchTimer,    \* window.searchTimer: the pending timer and its value
    appCalls,       \* the requests of App awaiting their answers
    appEvents,      \* history: number of user events
    sinceSelect     \* history: "none", or "quiet" / "typed" since the last selection

searchVars == <<box, inputValue, selectedAsset, options, timers, inflight,
                elapsed, gen, rapid, issued, cancelled, heldBeforeShort>>

pfVars == <<tabs, userDetails, view, addOp, rmOp, loadOp, nextId>>

ensureVars == <<profile, ensure, inserts, hadProfile>>

\* the variables of the components other than the search box and the
\* portfolio view
fundVars == <<shareTable, selectedFundId, holdings, prevHoldingsMap, hasPrevFund,
              loadingHoldings, fetches, sortConfig>>

holderVars == <<stakes, holders, stockSearch>>

tableVars == <<table, tableData, page, hasMore, loading, loadingMore, searchTerm,
               totalFundValue, lastValuation, mountOp, batches, sent, shortSeen,
               lastSent, lastClicks>>

stockVars == <<stockVersion, stockView, stockCalls, stockSent, lastSearched>>

\* the variables of the views added last
appVars == <<app, searchTimer, appCalls, appEvents, sinceSelect>>

viewVars == <<stockVars, appVars>>

otherVars == <<ensureVars, fundVars, holderVars, tableVars, viewVars>>

vars == <<searchVars, pfVars, otherVars>>

-----------------------------------------------------------------------------
(* Bounds of the model *)

\* longest input string typed
MaxLen == 3
\* number of runs of the search effect in one behaviour
MaxChanges == 4
\* clock resolution in ms
TickMs == 100
\* number of positions one tab adds in one behaviour; every further tab adds
\* one more
MaxAdds == 1

-----------------------------------------------------------------------------
(* Generic helpers *)

Min(a, b) == IF a < b THEN a ELSE b

\* the elements of s at the indices idx, in order (Array.prototype.filter
\* keeping the indices idx)
FilterIdx(s, idx) ==
    [j \in 1..Cardinality(idx) |->
        s[CHOOSE i \in idx : Cardinality({k \in idx : k <= i}) = j]]

\* Array.prototype.slice(0, n) / the backend's .limit(n)
Take(s, n) == SubSeq(s, 1, Min(Len(s), n))

\* SQL ilike '%k%' on lower-case strings: k occurs in s
Contains(s, k) ==
    \E i \in 0..(Len(s) - Len(k)) : SubSeq(s, i + 1, i + Len(k)) = k

-----------------------------------------------------------------------------
(* The search boxes *)

Boxes == {"navbar", "portfolio", "stock", "app"}

\* the boxes above and the search box of the earlier MyPortfolio
AllBoxes == Boxes \cup {"portfolioV1"}

Alphabet == {"a", "b"}

NavbarMinLength == 2
PortfolioMinLength == 2
StockMinLength == 2
AppMinLength == 2
PortfolioV1MinLength == 1

NavbarDebounceMs == 300
PortfolioDebounceMs == 300
StockDebounceMs == 600
PortfolioV1DebounceMs == 300

NavbarFundsLimit == 5
StockSuggestLimit == 10
AppFundsLimit == 10
PortfolioV1Limit == 10

MinLength(b) ==
    CASE b = "navbar" -> NavbarMinLength
      [] b = "portfolio" -> PortfolioMinLength
      [] b = "stock" -> StockMinLength
      [] b = "app" -> AppMinLength
      [] b = "portfolioV1" -> PortfolioV1MinLength

\* App.jsx calls fetchFunds() from the effect itself: no timer
Delay(b) ==
    CASE b = "navbar" -> NavbarDebounceMs
      [] b = "portfolio" -> PortfolioDebounceMs
      [] b = "stock" -> StockDebounceMs
      [] b = "app" -> 0
      [] b = "portfolioV1" -> PortfolioV1DebounceMs

Debounced(b) == b # "app"

\* which effects keep the closure flag `active`
HasActiveFlag(b) == b \in {"navbar", "portfolio", "portfolioV1"}

NoAsset == [type |-> "none"]

\* Backend tables: the keys of the rows, in the order the backend returns them
\* (duplicates are possible: one row per filing / per holder).
FundRows == << <<"a", "b">>, <<"a", "b">>, <<"b", "b">> >>
TickerRows == << <<"a", "b">>, <<"a", "b", "b">>, <<"a", "b">>, <<"b", "a">> >>

Matching(rows, k) == FilterIdx(rows, {i \in 1..Len(rows) : Contains(rows[i], k)})

\* keep the first occurrence of every key
Dedupe(rows) ==
    FilterIdx(rows, {i \in 1..Len(rows) : \A j \in 1..(i - 1) : rows[j] # rows[i]})

AsOptions(type, rows) == [i \in 1..Len(rows) |-> [type |-> type, value |-> rows[i]]]

\* Navbar fetchResults: funds first, then de-duplicated stocks; a failed
\* query leaves data null and contributes nothing
NavbarNewOptions(k, fundsOk, stocksOk) ==
    (IF fundsOk
       THEN AsOptions("Institutions", Take(Matching(FundRows, k), NavbarFundsLimit))
       ELSE <<>>)
    \o (IF stocksOk THEN AsOptions("Stocks", Dedupe(Matching(TickerRows, k))) ELSE <<>>)

\* MyPortfolio fetchSecurities: uniqueOptions
PortfolioUniqueOptions(k) == AsOptions("Stocks", Dedupe(Matching(TickerRows, k)))

\* StockRankings autocomplete: unique
StockUnique(k) ==
    AsOptions("Stocks", Dedupe(Take(Matching(TickerRows, k), StockSuggestLimit)))

\* the earlier MyPortfolio fetchSecurities: setOptions(data)
PortfolioV1Options(k) == AsOptions("Stocks", Take(Matching(TickerRows, k), PortfolioV1Limit))

\* App fetchFunds: uniqueNames
AppUniqueNames(k) ==
    AsOptions("Institutions", Dedupe(Take(Matching(FundRows, k), AppFundsLimit)))

\* the option list a box shows once the response r to its query is handled
AfterResponse(b, opts, r, fundsOk, stocksOk) ==
    CASE b = "navbar" ->
            IF r.active THEN NavbarNewOptions(r.keyword, fundsOk, stocksOk) ELSE opts
      [] b = "portfolio" ->
            IF stocksOk /\ r.active THEN PortfolioUniqueOptions(r.keyword) ELSE opts
      [] b = "stock" -> IF stocksOk THEN StockUnique(r.keyword) ELSE opts
      [] b = "app" -> IF stocksOk THEN AppUniqueNames(r.keyword) ELSE opts
      [] b = "portfolioV1" ->
            IF stocksOk /\ r.active THEN PortfolioV1Options(r.keyword) ELSE opts

\* mutation: the length test is off by one
IsShortOffByOne(b, v) == Len(v) < MinLength(b) - 1

\* the minimum-character test at the top of the effect
IsShort(b, v) == Len(v) < MinLength(b)

\* the branch taken when the input is shorter than the minimum length
ShortOptions(b, opts, asset) ==
    CASE b = "navbar" -> IF Len(opts) > 0 THEN opts ELSE <<>>
      [] b = "portfolio" -> IF asset # NoAsset THEN <<asset>> ELSE <<>>
      [] b = "stock" -> <<>>
      [] b = "app" -> <<>>
      [] b = "portfolioV1" -> <<>>

\* mutation: the cleanup forgets clearTimeout
ClearTimerForgotten(b, ts, g) == ts

\* the cleanup returned by the effect run g: clearTimeout of its timer
ClearTimer(b, ts, g) == {t \in ts : t.gen # g}

\* the cleanup returned by the previous effect run: active = false
Deactivate(b, reqs, g) ==
    IF HasActiveFlag(b)
      THEN {IF r.gen = g THEN [r EXCEPT !.active = FALSE] ELSE r : r \in reqs}
      ELSE reqs

\* setTimeout(fetch, delay) of the effect run g for input v
ArmTimer(b, v, g) == [keyword |-> v, gen |-> g, left |-> Delay(b)]

NewRequest(k, g) == [keyword |-> k, gen |-> g, active |-> TRUE]

\* history record of one remote search: its keyword, the effect run that
\* scheduled it and the number of effect runs when it was sent
Issue(k, run, at) == [keyword |-> k, run |-> run, at |-> at]

\* One run of the search effect after a render in which inputValue (or, in
\* MyPortfolio, selectedAsset) changed to v / asset; opts is the option list
\* of that render.  The cleanup of the previous run goes first.
RunEffect(v, asset, opts) ==
    LET short == IsShort(box, v)
        cleaned == Deactivate(box, inflight, gen)
        cleared == ClearTimer(box, timers, gen)
    IN  /\ inputValue' = v
        /\ selectedAsset' = asset
        /\ gen' = gen + 1
        /\ elapsed' = 0
        /\ rapid' = (rapid /\ (gen = 0 \/ elapsed < Delay(box)))
        /\ cancelled' = cancelled + Cardinality(timers \ cleared)
        /\ heldBeforeShort' =
              IF ~short THEN <<>>
              ELSE IF IsShort(box, inputValue) THEN heldBeforeShort
              ELSE options
        /\ options' = IF short THEN ShortOptions(box, opts, asset) ELSE opts
        /\ IF short
             THEN /\ timers' = cleared
                  /\ inflight' = cleaned
                  /\ issued' = issued
             ELSE IF Debounced(box)
             THEN /\ timers' = cleared \cup {ArmTimer(box, v, gen + 1)}
                  /\ inflight' = cleaned
                  /\ issued' = issued
             ELSE /\ timers' = cleared
                  /\ inflight' = cleaned \cup {NewRequest(v, gen + 1)}
                  /\ issued' = Append(issued, Issue(v, gen + 1, gen + 1))

\* the values one keystroke can turn v into
Edits(v) ==
    {Append(v, c) : c \in (IF Len(v) < MaxLen THEN Alphabet ELSE {})}
    \cup (IF Len(v) > 0 THEN {SubSeq(v, 1, Len(v) - 1)} ELSE {})

\* onInputChange / onChange of the text field
InputChange(v) ==
    /\ gen < MaxChanges
    /\ v \in Edits(inputValue)
    /\ RunEffect(v, selectedAsset, options)
    /\ UNCHANGED <<box, pfVars, otherVars>>

\* MyPortfolio Autocomplete: picking an option sets selectedAsset and the
\* input text (the option's symbol) in one render
SelectAsset(o) ==
    /\ box = "portfolio"
    /\ gen < MaxChanges
    /\ \E i \in 1..Len(options) : options[i] = o
    /\ (o # selectedAsset \/ o.value # inputValue)
    /\ RunEffect(o.value, o, options)
    /\ UNCHANGED <<box, pfVars, otherVars>>

\* Navbar handleSearchSelect, StockRankings handleSelectSuggestion, App
\* handleSelectCompany: the input is cleared (and the list, except in Navbar)
SelectAndClear ==
    /\ box \in {"navbar", "stock", "app"}
    /\ gen < MaxChanges
    /\ Len(options) > 0
    /\ inputValue # <<>>
    /\ RunEffect(<<>>, selectedAsset, IF box = "navbar" THEN options ELSE <<>>)
    /\ UNCHANGED <<box, pfVars, otherVars>>

\* time passes
Tick ==
    /\ (elapsed < Delay(box) \/ \E t \in timers : t.left > 0)
    /\ elapsed' = Min(elapsed + TickMs, Delay(box))
    /\ timers' = {[t EXCEPT !.left = IF t.left > TickMs THEN t.left - TickMs ELSE 0] :
                    t \in timers}
    /\ UNCHANGED <<box, inputValue, selectedAsset, options, inflight,
                   gen, rapid, issued, cancelled, heldBeforeShort, pfVars, otherVars>>

\* the setTimeout callback t runs: the remote search is sent
TimerFire(t) ==
    /\ t \in timers
    /\ t.left = 0
    /\ inflight' = inflight \cup {NewRequest(t.keyword, t.gen)}
    /\ issued' = Append(issued, Issue(t.keyword, t.gen, gen))
    /\ timers' = timers \ {t}
    /\ UNCHANGED <<box, inputValue, selectedAsset, options, elapsed, gen, rapid,
                   cancelled, heldBeforeShort, pfVars, otherVars>>

\* the response to request r arrives (responses arrive in any order)
Respond(r, fundsOk, stocksOk) ==
    /\ r \in inflight
    /\ (box # "navbar" => fundsOk)
    /\ inflight' = inflight \ {r}
    /\ options' = AfterResponse(box, options, r, fundsOk, stocksOk)
    /\ UNCHANGED <<box, inputValue, selectedAsset, timers, elapsed, gen, rapid,
                   issued, cancelled, heldBeforeShort, pfVars, otherVars>>

-----------------------------------------------------------------------------
(* The portfolio view: MyPortfolio mounted in two tabs of the same user *)

Tabs == {"A", "B"}

\* an entry as handleAddPosition stores it carries no sentiment field
NoSentiment == [increased |-> -1, decreased |-> -1]

NoEntry == [id |-> -1]

\* trending_tickers.investor_details.institutions: the share changes per symbol
TrendSymbols == {<<"b", "a">>}
TrendRows == [sym \in TrendSymbols |-> <<5, -3, 0>>]

\* fetchPortfolio step 3: institutions that increased / decreased; a symbol
\* without a row, or a failed trend query, counts 0 / 0
SentimentOf(sym, trendOk) ==
    IF trendOk /\ sym \in TrendSymbols
      THEN [increased |-> Cardinality({i \in DOMAIN TrendRows[sym] : TrendRows[sym][i] > 0}),
            decreased |-> Cardinality({i \in DOMAIN TrendRows[sym] : TrendRows[sym][i] < 0})]
      ELSE [increased |-> 0, decreased |-> 0]

\* fetchPortfolio step 4: merge sentiment into the portfolio items
MergeSentiment(items, trendOk) ==
    [i \in 1..Len(items) |->
        [items[i] EXCEPT !.sentiment = SentimentOf(items[i].symbol, trendOk)]]

DigitValue(c) ==
    CASE c = "0" -> 0 [] c = "1" -> 1 [] c = "2" -> 2 [] c = "3" -> 3 [] c = "4" -> 4
      [] c = "5" -> 5 [] c = "6" -> 6 [] c = "7" -> 7 [] c = "8" -> 8 [] c = "9" -> 9

RECURSIVE ParseFloat(_)
\* parseFloat of the text of a number field holding decimal digits
ParseFloat(str) ==
    IF str = <<>> THEN 0
    ELSE 10 * ParseFloat(SubSeq(str, 1, Len(str) - 1)) + DigitValue(str[Len(str)])

\* the values the form fields take in the model
FormAssets == {NoAsset, [type |-> "Stocks", value |-> <<"a", "b">>]}
ShareInputs == {<<>>, <<"1", "0">>}
PriceInputs == {<<>>, <<"1", "5", "0">>}

\* the forms the user leaves behind: at most one field empty
Forms ==
    {f \in FormAssets \X ShareInputs \X PriceInputs :
        \/ f[1] # NoAsset /\ f[2] # <<>>
        \/ f[1] # NoAsset /\ f[3] # <<>>
        \/ f[2] # <<>> /\ f[3] # <<>>}
FullForms == {f \in Forms : f[1] # NoAsset /\ f[2] # <<>> /\ f[3] # <<>>}

Ids(list) == {list[i].id : i \in 1..Len(list)}

\* portfolio.filter(p => p.id !== entryId)
RemoveId(list, id) == FilterIdx(list, {i \in 1..Len(list) : list[i].id # id})

\* the document before any add of the behaviour: one stored position
InitialDetails ==
    [email |-> "present",
     portfolio |-> <<[id |-> 0, symbol |-> <<"b", "a">>, shares |-> 1,
                      avg_price |-> 1, sentiment |-> NoSentiment]>>]

\* `currentData?.user_details || {}`: what a failed read leaves
EmptyDetails == [email |-> "absent", portfolio |-> <<>>]

InitialView ==
    [session |-> FALSE, loading |-> TRUE, portfolio |-> <<>>, submitting |-> FALSE,
     selectedAsset |-> NoAsset, shares |-> <<>>, price |-> <<>>, inputValue |-> <<>>]

AddOpAt(pc, entry, read, start) ==
    [pc |-> pc, newEntry |-> entry, read |-> read, start |-> start]
AddOpIdle(pc) == AddOpAt(pc, NoEntry, EmptyDetails, <<>>)
RmOpAt(pc, id, updated, doc) ==
    [pc |-> pc, id |-> id, updatedPortfolio |-> updated, doc |-> doc]
LoadOpAt(pc, items) == [pc |-> pc, items |-> items]

\* mutation: the guard forgets the price
AddGuardNoPrice(v) == v.selectedAsset # NoAsset /\ v.shares # <<>> /\ v.session

\* handleAddPosition: `if (!selectedAsset || !shares || !price || !session) return`
AddGuard(v) ==
    v.selectedAsset # NoAsset /\ v.shares # <<>> /\ v.price # <<>> /\ v.session

\* handleAddPosition: newEntry
NewEntry(v, id) ==
    [id |-> id, symbol |-> v.selectedAsset.value, shares |-> ParseFloat(v.shares),
     avg_price |-> ParseFloat(v.price), sentiment |-> NoSentiment]

\* handleAddPosition: { ...currentDetails, portfolio: [...portfolio, newEntry] }
AddDocument(currentDetails, entry) ==
    [currentDetails EXCEPT !.portfolio = Append(@, entry)]

\* mutation: the backend appends the entry to the array the row holds now
AddWrittenMerged(currentDetails, rowNow, entry) == AddDocument(rowNow, entry)

\* the row after the update of handleAddPosition: the document built from
\* what was re-read, whatever the row holds by now
AddWritten(currentDetails, rowNow, entry) == AddDocument(currentDetails, entry)

\* handleRemove: { ...currentData.user_details, portfolio: updatedPortfolio }
RemoveDocument(currentDetails, updatedPortfolio) ==
    [currentDetails EXCEPT !.portfolio = updatedPortfolio]

\* mutation: the local list is left alone until the write has resolved
OptimisticListDeferred(list, id) == list

\* handleRemove: updatedPortfolio, set as the local list at once
OptimisticList(list, id) == RemoveId(list, id)

\* mutation: the failure path resets the form like the success path
AddFailedViewReset(v) ==
    [v EXCEPT !.submitting = FALSE, !.selectedAsset = NoAsset, !.shares = <<>>,
              !.price = <<>>, !.inputValue = <<>>]

\* handleAddPosition, catch and finally: log, setSubmitting(false)
AddFailedView(v) == [v EXCEPT !.submitting = FALSE]

\* handleAddPosition after fetchPortfolio returned: reset inputs, then finally
AddDoneView(v) ==
    [v EXCEPT !.submitting = FALSE, !.selectedAsset = NoAsset, !.shares = <<>>,
              !.price = <<>>, !.inputValue = <<>>]

\* fetchPortfolio: setPortfolio(items) and, in finally, setLoading(false)
FetchedView(v, items) == [v EXCEPT !.portfolio = items, !.loading = FALSE]

\* fetchPortfolio when the profile query fails: only finally runs
FetchFailedView(v) == [v EXCEPT !.loading = FALSE]

\* the mount effect's getSession().then(...) runs
GetSessionResolved(t, s) ==
    /\ loadOp[t].pc = "session"
    /\ view' = [view EXCEPT ![t] =
                  IF s THEN [@ EXCEPT !.session = TRUE]
                  ELSE [@ EXCEPT !.session = FALSE, !.loading = FALSE]]
    /\ loadOp' = [loadOp EXCEPT ![t] = LoadOpAt(IF s THEN "profile" ELSE "idle", <<>>)]
    /\ UNCHANGED <<tabs, userDetails, addOp, rmOp, nextId, searchVars, otherVars>>

\* the onAuthStateChange callback runs with session s
AuthStateChange(t, s) ==
    /\ loadOp[t].pc = "idle"
    /\ s # view[t].session
    /\ view' = [view EXCEPT ![t] =
                  IF s THEN [@ EXCEPT !.session = TRUE]
                  ELSE [@ EXCEPT !.session = FALSE, !.portfolio = <<>>, !.loading = FALSE]]
    /\ loadOp' = [loadOp EXCEPT ![t] = LoadOpAt(IF s THEN "profile" ELSE "idle", <<>>)]
    /\ UNCHANGED <<tabs, userDetails, addOp, rmOp, nextId, searchVars, otherVars>>

\* fetchPortfolio (from an auth callback): the profile query returns
LoadProfile(t, ok) ==
    /\ loadOp[t].pc = "profile"
    /\ LET items == userDetails.portfolio
       IN  IF ok /\ Len(items) > 0
             THEN /\ loadOp' = [loadOp EXCEPT ![t] = LoadOpAt("trend", items)]
                  /\ view' = view
             ELSE /\ loadOp' = [loadOp EXCEPT ![t] = LoadOpAt("idle", <<>>)]
                  /\ view' = [view EXCEPT ![t] =
                                IF ok THEN FetchedView(@, items) ELSE FetchFailedView(@)]
    /\ UNCHANGED <<tabs, userDetails, addOp, rmOp, nextId, searchVars, otherVars>>

\* fetchPortfolio (from an auth callback): the trending_tickers query returns
LoadTrend(t, ok) ==
    /\ loadOp[t].pc = "trend"
    /\ view' = [view EXCEPT ![t] = FetchedView(@, MergeSentiment(loadOp[t].items, ok))]
    /\ loadOp' = [loadOp EXCEPT ![t] = LoadOpAt("idle", <<>>)]
    /\ UNCHANGED <<tabs, userDetails, addOp, rmOp, nextId, searchVars, otherVars>>

\* the user edits the add-position form (shown once loaded and signed in)
\* and leaves it as f = <<asset, shares, price>>
FillForm(t, f) ==
    /\ view[t].session /\ ~view[t].loading /\ ~view[t].submitting
    /\ f # <<view[t].selectedAsset, view[t].shares, view[t].price>>
    /\ view' = [view EXCEPT ![t] =
                  [@ EXCEPT !.selectedAsset = f[1], !.shares = f[2], !.price = f[3],
                            !.inputValue = IF f[1] = NoAsset THEN <<>> ELSE f[1].value]]
    /\ UNCHANGED <<tabs, userDetails, addOp, rmOp, loadOp, nextId, searchVars, otherVars>>

\* handleAddPosition is called (the Add button is disabled while submitting)
HandleAddPosition(t) ==
    /\ ~view[t].submitting
    /\ IF AddGuard(view[t])
         THEN /\ nextId < MaxAdds + Cardinality(tabs)
              /\ view' = [view EXCEPT ![t] = [@ EXCEPT !.submitting = TRUE]]
              /\ addOp' = [addOp EXCEPT ![t] =
                    AddOpAt("read", NewEntry(view[t], nextId), EmptyDetails,
                            userDetails.portfolio)]
              /\ nextId' = nextId + 1
         ELSE /\ addOp' = [addOp EXCEPT ![t] = AddOpIdle("rejected")]
              /\ UNCHANGED <<view, nextId>>
    /\ UNCHANGED <<tabs, userDetails, rmOp, loadOp, searchVars, otherVars>>

\* handleAddPosition: the re-read of the profile returns; the update is sent
AddRead(t, ok) ==
    /\ addOp[t].pc = "read"
    /\ addOp' = [addOp EXCEPT ![t] =
          [@ EXCEPT !.pc = "write", !.read = IF ok THEN userDetails ELSE EmptyDetails]]
    /\ UNCHANGED <<tabs, userDetails, view, rmOp, loadOp, nextId, searchVars, otherVars>>

\* handleAddPosition: the update returns
AddWrite(t, ok) ==
    /\ addOp[t].pc = "write"
    /\ IF ok
         THEN /\ userDetails' = AddWritten(addOp[t].read, userDetails, addOp[t].newEntry)
              /\ addOp' = [addOp EXCEPT ![t] = [@ EXCEPT !.pc = "fetchProfile",
                                                         !.read = EmptyDetails,
                                                         !.start = <<>>]]
              /\ view' = view
         ELSE /\ addOp' = [addOp EXCEPT ![t] = AddOpIdle("failed")]
              /\ view' = [view EXCEPT ![t] = AddFailedView(@)]
              /\ UNCHANGED userDetails
    /\ UNCHANGED <<tabs, rmOp, loadOp, nextId, searchVars, otherVars>>

\* handleAddPosition: the profile query of `await fetchPortfolio` returns
AddFetchProfile(t, ok) ==
    /\ addOp[t].pc = "fetchProfile"
    /\ LET items == userDetails.portfolio
       IN  IF ok /\ Len(items) > 0
             THEN /\ addOp' = [addOp EXCEPT ![t] =
                                 [@ EXCEPT !.pc = "fetchTrend", !.read.portfolio = items]]
                  /\ view' = view
             ELSE /\ addOp' = [addOp EXCEPT ![t] = AddOpIdle("idle")]
                  /\ view' = [view EXCEPT ![t] =
                        AddDoneView(IF ok THEN FetchedView(@, items)
                                    ELSE FetchFailedView(@))]
    /\ UNCHANGED <<tabs, userDetails, rmOp, loadOp, nextId, searchVars, otherVars>>

\* handleAddPosition: the trend query of `await fetchPortfolio` returns
AddFetchTrend(t, ok) ==
    /\ addOp[t].pc = "fetchTrend"
    /\ view' = [view EXCEPT ![t] =
          AddDoneView(FetchedView(@, MergeSentiment(addOp[t].read.portfolio, ok)))]
    /\ addOp' = [addOp EXCEPT ![t] = AddOpIdle("idle")]
    /\ UNCHANGED <<tabs, userDetails, rmOp, loadOp, nextId, searchVars, otherVars>>

\* handleRemove(entryId) is called from the row's delete button
HandleRemove(t, id) ==
    /\ view[t].session /\ ~view[t].loading
    /\ id \in Ids(view[t].portfolio)
    /\ rmOp[t].pc \notin {"read", "write"}
    /\ LET updatedPortfolio == OptimisticList(view[t].portfolio, id)
       IN  /\ view' = [view EXCEPT ![t] = [@ EXCEPT !.portfolio = updatedPortfolio]]
           /\ rmOp' = [rmOp EXCEPT ![t] =
                RmOpAt("read", id, RemoveId(view[t].portfolio, id), EmptyDetails)]
    /\ UNCHANGED <<tabs, userDetails, addOp, loadOp, nextId, searchVars, otherVars>>

\* handleRemove: the re-read returns; a failed read leaves currentData null
\* and `currentData.user_details` throws before any update is sent
RemoveRead(t, ok) ==
    /\ rmOp[t].pc = "read"
    /\ rmOp' = [rmOp EXCEPT ![t] =
          IF ok THEN [@ EXCEPT !.pc = "write", !.doc = userDetails]
          ELSE [@ EXCEPT !.pc = "failed", !.updatedPortfolio = <<>>]]
    /\ UNCHANGED <<tabs, userDetails, view, addOp, loadOp, nextId, searchVars, otherVars>>

\* handleRemove: the update returns
RemoveWrite(t, ok) ==
    /\ rmOp[t].pc = "write"
    /\ userDetails' = IF ok THEN RemoveDocument(rmOp[t].doc, rmOp[t].updatedPortfolio)
                      ELSE userDetails
    /\ rmOp' = [rmOp EXCEPT ![t] =
          IF ok THEN RmOpAt("idle", -1, <<>>, EmptyDetails)
          ELSE [@ EXCEPT !.pc = "failed", !.doc = EmptyDetails,
                         !.updatedPortfolio = <<>>]]
    /\ UNCHANGED <<tabs, view, addOp, loadOp, nextId, searchVars, otherVars>>

-----------------------------------------------------------------------------
(* Navbar: ensureProfileExists *)

\* number of SIGNED_IN events delivered to the Navbar in one behaviour
MaxSignedIn == 2

\* the invocations of ensureProfileExists: 0 from getSession().then, the
\* others from SIGNED_IN events
Invocations == 0..MaxSignedIn

NoProfile == [kind |-> "none"]
SignedUpProfile == [kind |-> "row", auto_created |-> FALSE]
\* the row ensureProfileExists inserts: email, full_name, auto_created: true
DefaultProfile == [kind |-> "row", auto_created |-> TRUE]

\* `if (!data || error)`: single() yields data only when the row exists and
\* the query did not fail
MustInsert(row, ok) == row = NoProfile \/ ~ok

\* ensureProfileExists(session.user) is called: the select is sent
EnsureProfileExists(c) ==
    /\ ensure[c] = "idle"
    /\ ensure' = [ensure EXCEPT ![c] = "select"]
    /\ UNCHANGED <<profile, inserts, hadProfile, searchVars, pfVars, fundVars, holderVars, tableVars, viewVars>>

\* the select returns; the insert is sent when no row came back
EnsureSelect(c, ok) ==
    /\ ensure[c] = "select"
    /\ IF MustInsert(profile, ok)
         THEN ensure' = [ensure EXCEPT ![c] = "insert"] /\ inserts' = inserts + 1
         ELSE ensure' = [ensure EXCEPT ![c] = "done"] /\ inserts' = inserts
    /\ UNCHANGED <<profile, hadProfile, searchVars, pfVars, fundVars, holderVars, tableVars, viewVars>>

\* the insert returns: it creates the row unless it failed or the primary
\* key is already taken (the error is returned, not thrown, and ignored)
EnsureInsert(c, ok) ==
    /\ ensure[c] = "insert"
    /\ profile' = IF ok /\ profile = NoProfile THEN DefaultProfile ELSE profile
    /\ ensure' = [ensure EXCEPT ![c] = "done"]
    /\ UNCHANGED <<inserts, hadProfile, searchVars, pfVars, fundVars, holderVars, tableVars, viewVars>>

EnsureIdle ==
    /\ ensure = [c \in Invocations |-> "idle"]
    /\ inserts = 0

-----------------------------------------------------------------------------
(* Fund-detail view: Dashboard *)

\* number of fund records (report periods) of the company
MaxFunds == 3

\* fund ids; fundHistory holds one record per id
Funds == 1..MaxFunds

\* report_date of a fund record: the lower the id, the newer the report
ReportDate(f) == MaxFunds + 1 - f

Symbols == {"x", "y"}

\* value_usd of one share
PriceOf(sym) == IF sym = "x" THEN 3 ELSE 5

\* the share counts one fund record may hold per symbol (0 = no holdings row)
Books ==
    { [sym \in Symbols |-> IF sym = "x" THEN 1 ELSE 0],
      [sym \in Symbols |-> IF sym = "x" THEN 2 ELSE 1],
      [sym \in Symbols |-> IF sym = "x" THEN 0 ELSE 2] }

\* the holdings row of fund f for symbol sym
HoldingRow(f, sym) ==
    [id |-> <<f, sym>>, fund_id |-> f, symbol |-> sym,
     shares_count |-> shareTable[f][sym],
     value_usd |-> shareTable[f][sym] * PriceOf(sym)]

\* holdings rows of fund f: .eq('fund_id', f).order('value_usd', descending)
HoldingsOf(f) ==
    LET held == {sym \in Symbols : shareTable[f][sym] > 0}
        orders == {q \in [1..Cardinality(held) -> held] :
                     /\ \A i, j \in DOMAIN q : i # j => q[i] # q[j]
                     /\ \A i, j \in DOMAIN q :
                           i < j => HoldingRow(f, q[i]).value_usd >=
                                        HoldingRow(f, q[j]).value_usd}
        q == CHOOSE o \in orders : TRUE
    IN  [i \in DOMAIN q |-> HoldingRow(f, q[i])]

\* sortedHistory[currentIndex + 1]: the record with the next-older report
\* date (0 = undefined)
PrevFund(f) ==
    LET older == {g \in Funds : ReportDate(g) < ReportDate(f)}
    IN  IF older = {} THEN 0
        ELSE CHOOSE g \in older : \A h \in older : ReportDate(h) <= ReportDate(g)

EmptyMap == [sym \in {} |-> 0]

\* prevRes.data.forEach(h => map[h.symbol] = h.shares_count)
PrevMapOf(rows) ==
    [sym \in {rows[i].symbol : i \in DOMAIN rows} |->
        rows[CHOOSE i \in DOMAIN rows :
                /\ rows[i].symbol = sym
                /\ \A j \in DOMAIN rows : rows[j].symbol = sym => j <= i].shares_count]

NoSort == [key |-> "none", direction |-> "none"]

\* the change cell of a row: "-" without a previous record, "NEW" when the
\* map has no entry for the symbol, the difference of the share counts else
ChangeContent(holding, map, hasPrev) ==
    IF ~hasPrev THEN [kind |-> "-", diff |-> 0]
    ELSE IF holding.symbol \notin DOMAIN map THEN [kind |-> "NEW", diff |-> 0]
    ELSE [kind |-> "diff", diff |-> holding.shares_count - map[holding.symbol]]

\* a report period is selected: the effect runs fetchData up to its await
SelectPeriod(f) ==
    /\ f # selectedFundId
    /\ selectedFundId' = f
    /\ loadingHoldings' = TRUE
    /\ sortConfig' = NoSort
    /\ hasPrevFund' = (PrevFund(f) # 0)
    /\ fetches' = fetches \cup {[fund |-> f, prev |-> PrevFund(f)]}
    /\ UNCHANGED <<shareTable, holdings, prevHoldingsMap, searchVars, pfVars, ensureVars, holderVars, tableVars, viewVars>>

\* Promise.all of a fetchData call resolves
FetchDataReturn(r, holdingsOk, prevOk) ==
    /\ r \in fetches
    /\ fetches' = fetches \ {r}
    /\ holdings' = IF holdingsOk THEN HoldingsOf(r.fund) ELSE holdings
    /\ prevHoldingsMap' = IF r.prev # 0 /\ prevOk THEN PrevMapOf(HoldingsOf(r.prev))
                          ELSE EmptyMap
    /\ loadingHoldings' = FALSE
    /\ UNCHANGED <<shareTable, selectedFundId, hasPrevFund, sortConfig,
                   searchVars, pfVars, ensureVars, holderVars, tableVars, viewVars>>

FundQuiet ==
    /\ selectedFundId = 0
    /\ holdings = <<>>
    /\ prevHoldingsMap = EmptyMap
    /\ hasPrevFund = FALSE
    /\ loadingHoldings = FALSE
    /\ fetches = {}

FundIdle == FundQuiet /\ sortConfig = NoSort

-----------------------------------------------------------------------------
(* Stock-detail view: StockRankings executeSearch *)

\* number of report periods each company has filed a fund record for
MaxPeriods == 3
\* largest share count of the searched symbol in one fund record
MaxStake == 2

Companies == {"c1", "c2"}

\* report periods: the higher, the newer the report_date
Periods == 1..MaxPeriods

\* the rows the holdings query returns for a company: one per fund record of
\* the company that holds the symbol, keyed by the record's report period
RowsOf(c) == {d \in Periods : stakes[c][d] > 0}

\* companyHoldings.sort(newest first)[0]
LatestOf(rows) == CHOOSE d \in rows : \A e \in rows : e <= d

\* companyHoldings.sort(newest first)[1], 0 when there is none
PreviousOf(rows) ==
    IF Cardinality(rows) > 1 THEN LatestOf(rows \ {LatestOf(rows)}) ELSE 0

\* the processed row of one company
ProcessCompany(c) ==
    LET latest == LatestOf(RowsOf(c))
        previous == PreviousOf(RowsOf(c))
    IN  [period |-> latest,
         shares_count |-> stakes[c][latest],
         change |-> IF previous # 0 THEN stakes[c][latest] - stakes[c][previous]
                    ELSE 0,
         isNewPosition |-> (previous = 0)]

\* processedData: one row per company that came back from the query
ProcessedData == [c \in {k \in Companies : RowsOf(k) # {}} |-> ProcessCompany(c)]

NoHolders == [c \in {} |-> 0]

SharesDesc == [key |-> "shares_count", direction |-> "desc"]

\* executeSearch(symbol) is called: state is reset and the queries are sent
ExecuteSearch ==
    /\ stockSearch # "loading"
    /\ stockSearch' = "loading"
    /\ holders' = NoHolders
    /\ sortConfig' = SharesDesc
    /\ UNCHANGED <<stakes, shareTable, selectedFundId, holdings, prevHoldingsMap,
                   hasPrevFund, loadingHoldings, fetches, searchVars, pfVars, ensureVars, tableVars, viewVars>>

\* Promise.all resolves: the rows are grouped and processed, or the error of
\* the holdings query is thrown and logged
ExecuteSearchReturn(ok) ==
    /\ stockSearch = "loading"
    /\ stockSearch' = IF ok THEN "done" ELSE "failed"
    /\ holders' = IF ok THEN ProcessedData ELSE holders
    /\ UNCHANGED <<stakes, fundVars, searchVars, pfVars, ensureVars, tableVars, viewVars>>

HoldersIdle == holders = NoHolders /\ stockSearch = "idle"

-----------------------------------------------------------------------------
(* Sortable tables: FundsList, TrendingPage, the paginated Dashboard, the  *)
(* client-sorted Dashboard and StockRankings                               *)

\* rows of the backend table or view behind the mounted table
NumRows == 55
\* every MatchEvery-th row matches the search term "q"
MatchEvery == 10
\* number of batch requests sent in one behaviour
MaxBatches == 4

\* BATCH_SIZE of the three infinite-scroll tables
FundsBatchSize == 20
TrendingBatchSize == 20
DashboardBatchSize == 50

\* the infinite-scroll tables, sorted by the backend
PagedTables == {"funds", "trending", "dashboard"}
\* the tables sorted in the browser: the unpaginated Dashboard and StockRankings
ClientTables == {"dashboardClient", "stock"}
Tables == PagedTables \cup ClientTables

BatchSize(tbl) ==
    IF tbl = "dashboard" THEN DashboardBatchSize
    ELSE IF tbl = "funds" THEN FundsBatchSize ELSE TrendingBatchSize

SearchTerms == {"", "q"}

\* the column headers of each table that are clicked in the model
SortKeys(tbl) ==
    CASE tbl = "funds" -> {"aum", "name"}
      [] tbl = "trending" -> {"total_value_usd", "symbol"}
      [] tbl = "dashboard" -> {"value_usd", "symbol"}
      [] tbl = "dashboardClient" -> {"value_usd", "symbol"}
      [] tbl = "stock" -> {"shares_count", "company_name"}

\* the column headers of each table: the paginated Dashboard has the computed
\* Change column next to the backend columns
HeaderKeys(tbl) ==
    IF tbl = "dashboard" THEN SortKeys(tbl) \cup {"change"} ELSE SortKeys(tbl)

\* useState of sortConfig in each component
InitialSort(tbl) ==
    CASE tbl = "funds" -> [key |-> "aum", direction |-> "desc"]
      [] tbl = "trending" -> [key |-> "total_value_usd", direction |-> "desc"]
      [] tbl = "dashboard" -> [key |-> "value_usd", direction |-> "desc"]
      [] tbl = "dashboardClient" -> NoSort
      [] tbl = "stock" -> SharesDesc

\* a handleSort that never toggles back to descending
ToggleOnce(prev, key) ==
    [key |-> key, direction |-> IF prev.key = key THEN "asc" ELSE "desc"]

\* handleSort of FundsList, TrendingPage and the paginated Dashboard: a new
\* column starts descending, the current column toggles
ToggleFromDesc(prev, key) ==
    [key |-> key,
     direction |-> IF prev.key = key /\ prev.direction = "desc" THEN "asc"
                   ELSE "desc"]

\* handleSort of StockRankings: a new column starts ascending
ToggleFromAsc(prev, key) ==
    [key |-> key,
     direction |-> IF prev.key = key /\ prev.direction = "asc" THEN "desc"
                   ELSE "asc"]

\* handleSort of the client-sorted Dashboard: asc, desc, then no sort at all
CycleSort(prev, key) ==
    IF prev.key = key /\ prev.direction = "asc"
      THEN [key |-> key, direction |-> "desc"]
    ELSE IF prev.key = key /\ prev.direction = "desc" THEN NoSort
    ELSE [key |-> key, direction |-> "asc"]

NextSort(tbl, prev, key) ==
    CASE tbl \in PagedTables -> ToggleFromDesc(prev, key)
      [] tbl = "dashboardClient" -> CycleSort(prev, key)
      [] tbl = "stock" -> ToggleFromAsc(prev, key)

\* the column of the order clause sent for a sort key
DbSortKey(tbl, key) ==
    IF tbl = "funds" /\ key = "name" THEN "company_name"
    ELSE IF tbl = "dashboard" /\ key \in {"weight", "change"} THEN "value_usd"
    ELSE key

\* backend data: value_usd of holding id
ValueUsd(id) == id

\* backend data: the keys of the rows matching the search term (ilike on the
\* searched column), by ascending key
MatchingRows(term) ==
    IF term = "" THEN [i \in 1..NumRows |-> i]
    ELSE [i \in 1..(NumRows \div MatchEvery) |-> i * MatchEvery]

Reverse(s) == [i \in 1..Len(s) |-> s[Len(s) + 1 - i]]

\* backend data: the money columns grow with the row key; the text columns
\* list the rows of even key before the rows of odd key
AscendingBy(col, s) ==
    IF col \in {"company_name", "symbol"}
      THEN LET IsEven(id) == id % 2 = 0
               IsOdd(id) == id % 2 = 1
           IN  SelectSeq(s, IsEven) \o SelectSeq(s, IsOdd)
      ELSE s

\* what the backend answers to a query without a range
ServerOrder(col, dir, term) ==
    IF dir = "asc" THEN AscendingBy(col, MatchingRows(term))
    ELSE Reverse(AscendingBy(col, MatchingRows(term)))

\* .range(from, from + size - 1)
Range(s, from, size) == SubSeq(s, from + 1, Min(Len(s), from + size))

\* the rows a batch request brings back; the Dashboard sends no range when
\* the sort key is the client-side one
BatchData(tbl, r) ==
    LET all == ServerOrder(DbSortKey(tbl, r.key), r.direction, r.term)
    IN  IF tbl = "dashboard" /\ r.key = "change" THEN all
        ELSE Range(all, r.page * BatchSize(tbl), BatchSize(tbl))

\* [...prev, ...newItems] with newItems the rows whose key is not in prev
AppendNew(prev, data) ==
    LET IsNew(d) == \A j \in 1..Len(prev) : prev[j] # d
    IN  prev \o SelectSeq(data, IsNew)

\* a batch request about to be sent
NewBatch(pg, cfg, term, reset, origin) ==
    [no |-> sent + 1, page |-> pg, key |-> cfg.key, direction |-> cfg.direction,
     term |-> term, isReset |-> reset, origin |-> origin]

\* the latest batch request was sent by origin and awaits its answer
SentBy(origin) == [origin |-> origin, status |-> "pending"]

MountOpAt(pc, cfg, term) ==
    [pc |-> pc, key |-> cfg.key, direction |-> cfg.direction, term |-> term]

\* keeps the last three header clicks
LastThree(s) == IF Len(s) > 3 THEN SubSeq(s, Len(s) - 2, Len(s)) ELSE s

\* what no action of a table changes
tableFrame == <<table, lastValuation, shareTable, selectedFundId, holdings,
                prevHoldingsMap, hasPrevFund, loadingHoldings, fetches,
                searchVars, pfVars, ensureVars, holderVars, viewVars>>

\* the component mounts. FundsList and TrendingPage: the batch effect runs
\* with page 0. Dashboard: initFundData resets the list and awaits the
\* valuations and the previous record before it asks for the first batch
TableMount ==
    /\ mountOp.pc = "unmounted"
    /\ table \in PagedTables
    /\ IF table = "dashboard"
         THEN /\ mountOp' = MountOpAt("init", sortConfig, searchTerm)
              /\ tableData' = <<>>
              /\ page' = 0
              /\ hasMore' = TRUE
              /\ loading' = TRUE
              /\ UNCHANGED <<batches, sent, lastSent>>
         ELSE /\ mountOp' = MountOpAt("ready", sortConfig, searchTerm)
              /\ batches' = batches \cup
                    {NewBatch(page, sortConfig, searchTerm, TRUE, "mount")}
              /\ sent' = sent + 1
              /\ lastSent' = SentBy("mount")
              /\ loading' = TRUE
              /\ UNCHANGED <<tableData, page, hasMore>>
    /\ UNCHANGED <<loadingMore, searchTerm, sortConfig, totalFundValue,
                   shortSeen, lastClicks, tableFrame>>

\* Dashboard: Promise.all of initFundData resolves; the total is the latest
\* valuation or 0, and the first batch is asked for with the sort and search
\* term of the render that started initFundData
InitFundReturn(valuationsOk) ==
    /\ mountOp.pc = "init"
    /\ mountOp' = [mountOp EXCEPT !.pc = "ready"]
    /\ totalFundValue' = IF valuationsOk /\ lastValuation > 0 THEN lastValuation
                         ELSE 0
    /\ batches' = batches \cup
          {NewBatch(0, mountOp, mountOp.term, TRUE, "mount")}
    /\ sent' = sent + 1
    /\ lastSent' = SentBy("mount")
    /\ UNCHANGED <<tableData, page, hasMore, loading, loadingMore, searchTerm,
                   sortConfig, shortSeen, lastClicks, tableFrame>>

\* the last row scrolls into view: the observer is attached only while no
\* loading flag is set and fires only while hasMore is set
ScrollTrigger ==
    /\ table \in PagedTables
    /\ tableData # <<>>
    /\ ~loading /\ ~loadingMore
    /\ hasMore
    /\ sent < MaxBatches
    /\ page' = page + 1
    /\ batches' = batches \cup
          {NewBatch(page + 1, sortConfig, searchTerm, FALSE, "scroll")}
    /\ sent' = sent + 1
    /\ lastSent' = SentBy("scroll")
    /\ IF table = "funds" THEN loading' = TRUE /\ UNCHANGED loadingMore
       ELSE loadingMore' = TRUE /\ UNCHANGED loading
    /\ UNCHANGED <<tableData, hasMore, searchTerm, sortConfig, totalFundValue,
                   mountOp, shortSeen, lastClicks, tableFrame>>

\* a column header is clicked
HandleSort(key) ==
    /\ mountOp.pc # "unmounted"
    /\ key \in HeaderKeys(table)
    /\ sortConfig' = NextSort(table, sortConfig, key)
    /\ lastClicks' = LastThree(Append(lastClicks, [key |-> key, before |-> sortConfig]))
    /\ IF table \in ClientTables
         THEN UNCHANGED <<tableData, page, hasMore, loading, batches, sent,
                          shortSeen, lastSent>>
         ELSE /\ sent < MaxBatches
              /\ page' = 0
              /\ loading' = TRUE
              /\ batches' = batches \cup
                    {NewBatch(0, NextSort(table, sortConfig, key), searchTerm,
                              TRUE, "sort")}
              /\ sent' = sent + 1
              /\ lastSent' = SentBy("sort")
              /\ shortSeen' = FALSE
              /\ IF table = "dashboard" THEN UNCHANGED <<tableData, hasMore>>
                 ELSE tableData' = <<>> /\ hasMore' = TRUE
    /\ UNCHANGED <<loadingMore, searchTerm, totalFundValue, mountOp, tableFrame>>

\* the search field of an infinite-scroll table changes
HandleSearchChange(term) ==
    /\ table \in PagedTables
    /\ mountOp.pc # "unmounted"
    /\ term # searchTerm
    /\ sent < MaxBatches
    /\ searchTerm' = term
    /\ page' = 0
    /\ loading' = TRUE
    /\ batches' = batches \cup {NewBatch(0, sortConfig, term, TRUE, "search")}
    /\ sent' = sent + 1
    /\ lastSent' = SentBy("search")
    /\ shortSeen' = FALSE
    /\ lastClicks' = <<>>
    /\ IF table = "dashboard" THEN UNCHANGED <<tableData, hasMore>>
       ELSE tableData' = <<>> /\ hasMore' = TRUE
    /\ UNCHANGED <<loadingMore, sortConfig, totalFundValue, mountOp, tableFrame>>

\* the request r is for the query the table shows now
CurrentQuery(r) ==
    /\ r.key = sortConfig.key
    /\ r.direction = sortConfig.direction
    /\ r.term = searchTerm

\* the list after the answer data of request r is applied
ApplyBatch(tbl, r, data) ==
    IF tbl = "dashboard" THEN (IF r.isReset THEN data ELSE tableData \o data)
    ELSE IF r.page = 0 THEN data
    ELSE AppendNew(tableData, data)

\* hasMore after the answer data of request r
MoreAfter(tbl, r, data) ==
    IF tbl = "dashboard"
      THEN ~(Len(data) < BatchSize(tbl) \/ r.key = "change")
      ELSE IF Len(data) < BatchSize(tbl) THEN FALSE ELSE hasMore

\* the answer to batch request r arrives
BatchResponse(r, ok) ==
    LET data == BatchData(table, r)
    IN  /\ r \in batches
        /\ batches' = batches \ {r}
        /\ tableData' = IF ok THEN ApplyBatch(table, r, data) ELSE tableData
        /\ hasMore' = IF ok THEN MoreAfter(table, r, data) ELSE hasMore
        /\ IF table = "dashboard"
             THEN /\ loading' = IF r.isReset THEN FALSE ELSE loading
                  /\ loadingMore' = IF ok /\ ~r.isReset THEN FALSE ELSE loadingMore
             ELSE loading' = FALSE /\ loadingMore' = FALSE
        /\ shortSeen' = (shortSeen \/ (ok /\ CurrentQuery(r)
                                         /\ Len(data) < BatchSize(table)))
        /\ lastSent' = IF r.no = sent
                          THEN [lastSent EXCEPT !.status = IF ok THEN "ok" ELSE "failed"]
                          ELSE lastSent
        /\ UNCHANGED <<page, sent, searchTerm, sortConfig, totalFundValue,
                       mountOp, lastClicks, tableFrame>>

\* backend data: shares_count of holding id
SharesCount(id) == id

\* backend data: the shares of the holding's symbol in the previous record;
\* every seventh symbol is absent from it, which the map lookup `|| 0`
\* counts as 0
PrevShares(id) == IF id % 7 = 0 THEN 0 ELSE id - (id % 5) + 2

\* changeA / changeB of sortedHoldings
ShareChange(id) == SharesCount(id) - PrevShares(id)

\* Array.prototype.sort with the comparator of sortedHoldings over the
\* changes vals: a stable sort, rows of equal change keep their order
RECURSIVE ByChange(_, _, _)
ByChange(s, vals, dir) ==
    IF vals = {} THEN <<>>
    ELSE LET v == IF dir = "asc" THEN CHOOSE x \in vals : \A y \in vals : x <= y
                  ELSE CHOOSE x \in vals : \A y \in vals : x >= y
             HasChange(id) == ShareChange(id) = v
         IN  SelectSeq(s, HasChange) \o ByChange(s, vals \ {v}, dir)

\* sortedHoldings of the paginated Dashboard: the rows the table renders
SortedHoldings(s, cfg) ==
    IF cfg.key = "change"
      THEN ByChange(s, {ShareChange(s[i]) : i \in DOMAIN s}, cfg.direction)
      ELSE s

\* the sum of value_usd over a list of holdings
RECURSIVE SumValueUsd(_)
SumValueUsd(s) == IF s = <<>> THEN 0 ELSE ValueUsd(Head(s)) + SumValueUsd(Tail(s))

\* backend: the sum of value_usd over the fund's holdings
HoldingsTotal == (NumRows * (NumRows + 1)) \div 2

\* the table state of a component that is not mounted
TableQuiet ==
    /\ tableData = <<>>
    /\ page = 0
    /\ hasMore = TRUE
    /\ loadingMore = FALSE
    /\ searchTerm = ""
    /\ totalFundValue = 0
    /\ batches = {}
    /\ sent = 0
    /\ shortSeen = FALSE
    /\ lastSent = [origin |-> "none", status |-> "none"]
    /\ lastClicks = <<>>

TableIdle ==
    /\ table = "funds"
    /\ lastValuation = 0
    /\ loading = TRUE
    /\ mountOp = MountOpAt("unmounted", NoSort, "")
    /\ TableQuiet

-----------------------------------------------------------------------------
(* Stock-detail view: the searches of StockRankings and their price series *)

\* number of executeSearch calls in one behaviour
MaxSearches == 3
\* weekly closes of the last year in an answer of the price API
YearPoints == 53
\* weeks of the generated fallback series
FallbackWeeks == 52

\* StockRankings.jsx, and the routed StockRankings driven by the :ticker
\* parameter
StockVersions == {"rankings", "routed"}

Tickers == {"t1", "t2"}

\* the payloads of the price API: a weekly series, a series with no close in
\* the last year, the rate-limit and error shapes, a payload without the
\* series key, and a response that is not ok
Payloads == {"series", "oldSeries", "Note", "Information", "Error Message",
             "noSeriesKey", "httpError"}

ErrorShaped == {"Note", "Information", "Error Message", "noSeriesKey"}

\* fetchStockData of StockRankings.jsx: every throw ends in the fallback loop
FetchStockData(payload) ==
    CASE payload = "series" -> YearPoints
      [] payload = "oldSeries" -> 0
      [] OTHER -> FallbackWeeks

\* fetchStockPriceHistory of the routed version: every failure returns []
FetchStockPriceHistory(payload) ==
    CASE payload = "series" -> YearPoints
      [] OTHER -> 0

\* the number of points of the series a version makes of a payload
FetchedPoints(v, payload) ==
    IF v = "rankings" THEN FetchStockData(payload)
    ELSE FetchStockPriceHistory(payload)

NoSeries == [owner |-> "", points |-> 0]

\* the state after construction; every datum carries the ticker it was
\* fetched for ("" = empty)
InitialStockView ==
    [route |-> "", searchedTicker |-> "", hasSearched |-> FALSE,
     loading |-> FALSE, holdings |-> "", stockHistory |-> NoSeries,
     currentPrice |-> "", priceChange |-> "", companyOverview |-> ""]

\* the synchronous part of executeSearch
SearchStarted(v, sv, sym) ==
    IF v = "rankings"
      THEN [sv EXCEPT !.loading = TRUE, !.hasSearched = TRUE,
                      !.searchedTicker = sym, !.holdings = ""]
      ELSE [sv EXCEPT !.route = sym, !.loading = TRUE, !.searchedTicker = sym,
                      !.holdings = "", !.stockHistory = NoSeries,
                      !.companyOverview = ""]

\* the series and the two price figures after the answers of call c
WithSeries(sv, c) ==
    IF c.points > 0
      THEN [sv EXCEPT !.stockHistory = [owner |-> c.symbol, points |-> c.points],
                      !.currentPrice = c.symbol, !.priceChange = c.symbol]
      ELSE sv

\* the block after the awaits of executeSearch, and its finally
SearchDone(v, sv, c, overviewOk, holdingsOk) ==
    IF v = "rankings"
      THEN IF ~holdingsOk THEN [sv EXCEPT !.loading = FALSE]
           ELSE [WithSeries([sv EXCEPT !.stockHistory = NoSeries], c)
                    EXCEPT !.loading = FALSE, !.holdings = c.symbol]
      ELSE [WithSeries(sv, c) EXCEPT
              !.loading = FALSE,
              !.companyOverview = IF overviewOk THEN c.symbol ELSE @,
              !.holdings = IF holdingsOk THEN c.symbol ELSE @]

\* executeSearch(sym): by a suggestion or the search button in
\* StockRankings.jsx, by the ticker effect after a navigation in the routed
\* version
StartSearch(sym) ==
    /\ stockSent < MaxSearches
    /\ stockVersion = "routed" => sym # stockView.route
    /\ stockView' = SearchStarted(stockVersion, stockView, sym)
    /\ stockCalls' = stockCalls \cup
          {[no |-> stockSent + 1, symbol |-> sym, pc |-> "price",
            payload |-> "none", points |-> 0]}
    /\ stockSent' = stockSent + 1
    /\ lastSearched' = sym
    /\ UNCHANGED <<stockVersion, searchVars, pfVars, ensureVars, fundVars,
                   holderVars, tableVars, appVars>>

\* the price API answers call c
PriceAnswer(c, payload) ==
    /\ c \in stockCalls
    /\ c.pc = "price"
    /\ stockCalls' = (stockCalls \ {c}) \cup
          {[c EXCEPT !.pc = "rest", !.payload = payload,
                     !.points = FetchedPoints(stockVersion, payload)]}
    /\ UNCHANGED <<stockVersion, stockView, stockSent, lastSearched, searchVars, pfVars,
                   ensureVars, fundVars, holderVars, tableVars, appVars>>

\* the last await of call c resolves
SearchSettles(c, overviewOk, holdingsOk) ==
    /\ c \in stockCalls
    /\ c.pc = "rest"
    /\ stockVersion = "rankings" => overviewOk
    /\ stockCalls' = stockCalls \ {c}
    /\ stockView' = SearchDone(stockVersion, stockView, c, overviewOk, holdingsOk)
    /\ UNCHANGED <<stockVersion, stockSent, lastSearched, searchVars, pfVars, ensureVars,
                   fundVars, holderVars, tableVars, appVars>>

\* routed version: navigation to the page without a ticker
LeaveTicker ==
    /\ stockVersion = "routed"
    /\ stockView.route # ""
    /\ stockView' = [stockView EXCEPT !.route = "", !.searchedTicker = "",
                                      !.holdings = "", !.stockHistory = NoSeries,
                                      !.companyOverview = ""]
    /\ UNCHANGED <<stockVersion, stockCalls, stockSent, lastSearched, searchVars, pfVars,
                   ensureVars, fundVars, holderVars, tableVars, appVars>>

\* StockRankings.jsx: resetSearch
ResetSearch ==
    /\ stockVersion = "rankings"
    /\ stockView.hasSearched
    /\ stockView' = [stockView EXCEPT !.hasSearched = FALSE,
                                      !.stockHistory = NoSeries]
    /\ UNCHANGED <<stockVersion, stockCalls, stockSent, lastSearched, searchVars, pfVars,
                   ensureVars, fundVars, holderVars, tableVars, appVars>>

StockIdle ==
    /\ stockVersion = "rankings"
    /\ stockView = InitialStockView
    /\ stockCalls = {}
    /\ stockSent = 0
    /\ lastSearched = ""

-----------------------------------------------------------------------------
(* App: the view state, the company selection and the Navbar that debounces
   through window.searchTimer *)

\* number of user events (keystrokes, selections, clicks) in one behaviour
MaxAppEvents == 4

FundNames == {"c1", "c2"}

\* what the user may leave in the search field of the Navbar
NavbarInputs == {<<>>, <<"a">>, <<"a", "b">>, <<"a", "b", "c">>}

\* window.searchTimer holds no pending timer
NoTimer == [armed |-> FALSE, value |-> <<>>]

\* useState of App and of the Navbar; searchResults is the keyword whose
\* names are listed, fundHistory and initialFundId are the company whose
\* records they are of ("" = [] or null)
InitialApp ==
    [view |-> "landing", searchTerm |-> <<>>, searchResults |-> <<>>,
     isSearching |-> FALSE, selectedCompany |-> "", fundHistory |-> "",
     initialFundId |-> "", localSearch |-> <<>>]

\* the search effect of App after searchTerm became term
AfterTermChange(a, term) ==
    IF Len(term) < AppMinLength
      THEN [a EXCEPT !.searchTerm = term, !.localSearch = term,
                     !.searchResults = <<>>, !.isSearching = FALSE]
      ELSE [a EXCEPT !.searchTerm = term, !.localSearch = term,
                     !.isSearching = TRUE]

\* the synchronous part of handleSelectCompany, and the effects of the
\* cleared search term
Selected(a, companyName) ==
    [a EXCEPT !.fundHistory = "", !.selectedCompany = companyName,
              !.searchTerm = <<>>, !.searchResults = <<>>,
              !.isSearching = FALSE, !.localSearch = <<>>]

\* handleSelectCompany after its await
HistoryFetched(a, companyName, ok) ==
    IF ok THEN [a EXCEPT !.fundHistory = companyName,
                         !.initialFundId = companyName, !.view = "dashboard"]
    ELSE a

appFrame == <<stockVars, searchVars, pfVars, ensureVars, fundVars, holderVars,
              tableVars>>

\* Navbar handleInputChange: the field changes to val and the shared timer is
\* armed again
HandleInputChange(val) ==
    /\ appEvents < MaxAppEvents
    /\ app.view # "search"
    /\ val # app.localSearch
    /\ app' = [app EXCEPT !.localSearch = val]
    /\ searchTimer' = [armed |-> TRUE, value |-> val]
    /\ sinceSelect' = IF sinceSelect = "none" THEN "none" ELSE "typed"
    /\ appEvents' = appEvents + 1
    /\ UNCHANGED <<appCalls, appFrame>>

\* the timer of window.searchTimer fires: onSearchChange sets the search term
\* of App, whose effect searches for a term of at least two characters
SearchTimerFires ==
    /\ searchTimer.armed
    /\ searchTimer' = NoTimer
    /\ IF searchTimer.value = app.searchTerm
         THEN UNCHANGED <<app, appCalls>>
         ELSE /\ app' = AfterTermChange(app, searchTimer.value)
              /\ appCalls' = IF Len(searchTimer.value) < AppMinLength THEN appCalls
                             ELSE appCalls \cup
                                    {[kind |-> "search", arg |-> searchTimer.value,
                                      quiet |-> (sinceSelect = "quiet")]}
    /\ UNCHANGED <<appEvents, sinceSelect, appFrame>>

\* fetchFunds of the search effect returns
FetchFundsReturns(c, ok) ==
    /\ c \in appCalls
    /\ c.kind = "search"
    /\ appCalls' = appCalls \ {c}
    /\ app' = [app EXCEPT !.searchResults = IF ok THEN c.arg ELSE @,
                          !.isSearching = FALSE]
    /\ UNCHANGED <<searchTimer, appEvents, sinceSelect, appFrame>>

\* handleSelectCompany(companyName): from the result list of the search or
\* from a row of FundsList
HandleSelectCompany(companyName) ==
    /\ appEvents < MaxAppEvents
    /\ app.searchResults # <<>> \/ app.view = "rankings"
    /\ app' = Selected(app, companyName)
    /\ appCalls' = appCalls \cup
          {[kind |-> "history", arg |-> companyName, quiet |-> FALSE]}
    /\ sinceSelect' = "quiet"
    /\ appEvents' = appEvents + 1
    /\ UNCHANGED <<searchTimer, appFrame>>

\* the funds query of handleSelectCompany returns; ok = no error and at
\* least one record
HistoryReturns(c, ok) ==
    /\ c \in appCalls
    /\ c.kind = "history"
    /\ appCalls' = appCalls \ {c}
    /\ app' = HistoryFetched(app, c.arg, ok)
    /\ UNCHANGED <<searchTimer, appEvents, sinceSelect, appFrame>>

\* handleLogoClick
HandleLogoClick ==
    /\ appEvents < MaxAppEvents
    /\ app.view # "landing" \/ app.selectedCompany # ""
    /\ app' = [app EXCEPT !.view = "landing", !.selectedCompany = ""]
    /\ appEvents' = appEvents + 1
    /\ UNCHANGED <<searchTimer, appCalls, sinceSelect, appFrame>>

\* onRankingsClick
RankingsClick ==
    /\ appEvents < MaxAppEvents
    /\ app.view # "rankings"
    /\ app' = [app EXCEPT !.view = "rankings"]
    /\ appEvents' = appEvents + 1
    /\ UNCHANGED <<searchTimer, appCalls, sinceSelect, appFrame>>

AppIdle ==
    /\ app = InitialApp
    /\ searchTimer = NoTimer
    /\ appCalls = {}
    /\ appEvents = 0
    /\ sinceSelect = "none"

\* the views added last stay as constructed
ViewIdle == StockIdle /\ AppIdle

\* the components a specification leaves out stay as constructed
OtherIdle ==
    /\ profile = NoProfile /\ hadProfile = FALSE /\ EnsureIdle
    /\ shareTable = [f \in Funds |-> [sym \in Symbols |-> 0]] /\ FundIdle
    /\ stakes = [c \in Companies |-> [d \in Periods |-> 0]] /\ HoldersIdle
    /\ TableIdle
    /\ ViewIdle

PortfolioIdle ==
    /\ userDetails = InitialDetails
    /\ view = [t \in Tabs |-> InitialView]
    /\ addOp = [t \in Tabs |-> AddOpIdle("idle")]
    /\ rmOp = [t \in Tabs |-> RmOpAt("idle", -1, <<>>, EmptyDetails)]
    /\ loadOp = [t \in Tabs |-> LoadOpAt("session", <<>>)]
    /\ nextId = 1

SearchIdle ==
    /\ inputValue = <<>>
    /\ selectedAsset = NoAsset
    /\ options = <<>>
    /\ timers = {}
    /\ inflight = {}
    /\ elapsed = 0
    /\ gen = 0
    /\ rapid = TRUE
    /\ issued = <<>>
    /\ cancelled = 0
    /\ heldBeforeShort = <<>>

PortfolioInit ==
    tabs = {"A"} /\ PortfolioIdle /\ SearchIdle /\ box = "portfolio" /\ OtherIdle

PortfolioNext ==
    \/ \E t \in tabs, s \in BOOLEAN : GetSessionResolved(t, s)
    \/ \E t \in tabs, s \in BOOLEAN : AuthStateChange(t, s)
    \/ \E t \in tabs, ok \in BOOLEAN : LoadProfile(t, ok)
    \/ \E t \in tabs, ok \in BOOLEAN : LoadTrend(t, ok)
    \/ \E t \in tabs, f \in Forms : FillForm(t, f)
    \/ \E t \in tabs : HandleAddPosition(t)
    \/ \E t \in tabs, ok \in BOOLEAN : AddRead(t, ok)
    \/ \E t \in tabs, ok \in BOOLEAN : AddWrite(t, ok)
    \/ \E t \in tabs, ok \in BOOLEAN : AddFetchProfile(t, ok)
    \/ \E t \in tabs, ok \in BOOLEAN : AddFetchTrend(t, ok)
    \/ \E t \in tabs : \E id \in Ids(view[t].portfolio) : HandleRemove(t, id)
    \/ \E t \in tabs, ok \in BOOLEAN : RemoveRead(t, ok)
    \/ \E t \in tabs, ok \in BOOLEAN : RemoveWrite(t, ok)

\* one tab: every user action and every request outcome
PortfolioSpec == PortfolioInit /\ [][PortfolioNext]_vars

TwoTabInit ==
    tabs = Tabs /\ PortfolioIdle /\ SearchIdle /\ box = "portfolio" /\ OtherIdle

\* two tabs of a signed-in user, each loading the portfolio and adding positions
TwoTabNext ==
    \/ \E t \in tabs : GetSessionResolved(t, TRUE)
    \/ \E t \in tabs, ok \in BOOLEAN : LoadProfile(t, ok)
    \/ \E t \in tabs, ok \in BOOLEAN : LoadTrend(t, ok)
    \/ \E t \in tabs, f \in FullForms : FillForm(t, f)
    \/ \E t \in tabs : HandleAddPosition(t)
    \/ \E t \in tabs, ok \in BOOLEAN : AddRead(t, ok)
    \/ \E t \in tabs, ok \in BOOLEAN : AddWrite(t, ok)
    \/ \E t \in tabs, ok \in BOOLEAN : AddFetchProfile(t, ok)
    \/ \E t \in tabs, ok \in BOOLEAN : AddFetchTrend(t, ok)

TwoTabSpec == TwoTabInit /\ [][TwoTabNext]_vars

SearchInit == box \in Boxes /\ SearchIdle /\ PortfolioIdle /\ tabs = {} /\ OtherIdle

SearchNext ==
    \/ \E v \in UNION {Edits(inputValue)} : InputChange(v)
    \/ \E i \in 1..Len(options) : SelectAsset(options[i])
    \/ SelectAndClear
    \/ Tick
    \/ \E t \in timers : TimerFire(t)
    \/ \E r \in inflight : \E fundsOk, stocksOk \in BOOLEAN : Respond(r, fundsOk, stocksOk)

SearchSpec == SearchInit /\ [][SearchNext]_vars

StockInit ==
    /\ stockVersion \in StockVersions
    /\ stockView = InitialStockView
    /\ stockCalls = {}
    /\ stockSent = 0
    /\ lastSearched = ""
    /\ SearchIdle /\ box = "stock" /\ PortfolioIdle /\ tabs = {}
    /\ profile = NoProfile /\ hadProfile = FALSE /\ EnsureIdle
    /\ shareTable = [f \in Funds |-> [sym \in Symbols |-> 0]] /\ FundIdle
    /\ stakes = [c \in Companies |-> [d \in Periods |-> 0]] /\ HoldersIdle
    /\ TableIdle
    /\ AppIdle

StockNext ==
    \/ \E sym \in Tickers : StartSearch(sym)
    \/ \E c \in stockCalls, payload \in Payloads : PriceAnswer(c, payload)
    \/ \E c \in stockCalls, overviewOk, holdingsOk \in BOOLEAN :
          SearchSettles(c, overviewOk, holdingsOk)
    \/ LeaveTicker
    \/ ResetSearch

\* the stock-detail view: searches, navigations and their answers
StockSpec == StockInit /\ [][StockNext]_vars

AppInit ==
    /\ AppIdle
    /\ StockIdle
    /\ SearchIdle /\ box = "app" /\ PortfolioIdle /\ tabs = {}
    /\ profile = NoProfile /\ hadProfile = FALSE /\ EnsureIdle
    /\ shareTable = [f \in Funds |-> [sym \in Symbols |-> 0]] /\ FundIdle
    /\ stakes = [c \in Companies |-> [d \in Periods |-> 0]] /\ HoldersIdle
    /\ TableIdle

AppNext ==
    \/ \E val \in NavbarInputs : HandleInputChange(val)
    \/ SearchTimerFires
    \/ \E c \in appCalls, ok \in BOOLEAN : FetchFundsReturns(c, ok)
    \/ \E companyName \in FundNames : HandleSelectCompany(companyName)
    \/ \E c \in appCalls, ok \in BOOLEAN : HistoryReturns(c, ok)
    \/ HandleLogoClick
    \/ RankingsClick

\* App with the debouncing Navbar: typing, selections, clicks and answers
AppSpec == AppInit /\ [][AppNext]_vars

OptionsInit == box \in AllBoxes /\ SearchIdle /\ PortfolioIdle /\ tabs = {} /\ OtherIdle

\* one search box, the one of the earlier MyPortfolio included
OptionsSpec == OptionsInit /\ [][SearchNext]_vars

EnsureInit ==
    /\ profile \in {NoProfile, SignedUpProfile}
    /\ hadProfile = (profile # NoProfile)
    /\ EnsureIdle
    /\ SearchIdle /\ box = "navbar" /\ PortfolioIdle /\ tabs = {}
    /\ shareTable = [f \in Funds |-> [sym \in Symbols |-> 0]] /\ FundIdle
    /\ stakes = [c \in Companies |-> [d \in Periods |-> 0]] /\ HoldersIdle
    /\ TableIdle
    /\ ViewIdle

EnsureNext ==
    \/ \E c \in Invocations : EnsureProfileExists(c)
    \/ \E c \in Invocations, ok \in BOOLEAN : EnsureSelect(c, ok)
    \/ \E c \in Invocations, ok \in BOOLEAN : EnsureInsert(c, ok)

\* one user signing in through the Navbar
EnsureSpec == EnsureInit /\ [][EnsureNext]_vars

FundInit ==
    /\ shareTable \in [Funds -> Books]
    /\ FundIdle
    /\ SearchIdle /\ box = "navbar" /\ PortfolioIdle /\ tabs = {}
    /\ profile = NoProfile /\ hadProfile = FALSE /\ EnsureIdle
    /\ stakes = [c \in Companies |-> [d \in Periods |-> 0]] /\ HoldersIdle
    /\ TableIdle
    /\ ViewIdle

FundNext ==
    \/ \E f \in Funds : SelectPeriod(f)
    \/ \E r \in fetches, holdingsOk, prevOk \in BOOLEAN :
          FetchDataReturn(r, holdingsOk, prevOk)

\* the fund-detail view of one company
FundSpec == FundInit /\ [][FundNext]_vars

HoldersInit ==
    /\ stakes \in [Companies -> [Periods -> 0..MaxStake]]
    /\ HoldersIdle
    /\ SearchIdle /\ box = "stock" /\ PortfolioIdle /\ tabs = {}
    /\ profile = NoProfile /\ hadProfile = FALSE /\ EnsureIdle
    /\ shareTable = [f \in Funds |-> [sym \in Symbols |-> 0]] /\ FundIdle
    /\ TableIdle
    /\ ViewIdle

HoldersNext ==
    \/ ExecuteSearch
    \/ \E ok \in BOOLEAN : ExecuteSearchReturn(ok)

\* one symbol searched in the stock-detail view
HoldersSpec == HoldersInit /\ [][HoldersNext]_vars

TableInit ==
    /\ table \in Tables
    /\ lastValuation \in (IF table = "dashboard" THEN {0, HoldingsTotal} ELSE {0})
    /\ sortConfig = InitialSort(table)
    /\ loading = (table \in {"funds", "trending"})
    /\ mountOp = MountOpAt(IF table \in ClientTables THEN "ready" ELSE "unmounted",
                           InitialSort(table), "")
    /\ TableQuiet
    /\ SearchIdle /\ box = "navbar" /\ PortfolioIdle /\ tabs = {}
    /\ profile = NoProfile /\ hadProfile = FALSE /\ EnsureIdle
    /\ shareTable = [f \in Funds |-> [sym \in Symbols |-> 0]] /\ FundQuiet
    /\ stakes = [c \in Companies |-> [d \in Periods |-> 0]] /\ HoldersIdle
    /\ ViewIdle

TableNext ==
    \/ TableMount
    \/ \E valuationsOk \in BOOLEAN : InitFundReturn(valuationsOk)
    \/ ScrollTrigger
    \/ \E key \in SortKeys(table) : HandleSort(key)
    \/ \E term \in SearchTerms : HandleSearchChange(term)
    \/ \E r \in batches, ok \in BOOLEAN : BatchResponse(r, ok)

\* one sortable table: header clicks, search, scrolling and the answers
TableSpec == TableInit /\ [][TableNext]_vars

ChangeSortInit ==
    /\ table = "dashboard"
    /\ lastValuation = HoldingsTotal
    /\ sortConfig = InitialSort(table)
    /\ loading = FALSE
    /\ mountOp = MountOpAt("unmounted", InitialSort(table), "")
    /\ TableQuiet
    /\ SearchIdle /\ box = "navbar" /\ PortfolioIdle /\ tabs = {}
    /\ profile = NoProfile /\ hadProfile = FALSE /\ EnsureIdle
    /\ shareTable = [f \in Funds |-> [sym \in Symbols |-> 0]] /\ FundQuiet
    /\ stakes = [c \in Companies |-> [d \in Periods |-> 0]] /\ HoldersIdle
    /\ ViewIdle

ChangeSortNext ==
    \/ TableMount
    \/ InitFundReturn(TRUE)
    \/ ScrollTrigger
    \/ \E key \in {"value_usd", "change"} : HandleSort(key)
    \/ \E r \in batches, ok \in BOOLEAN : BatchResponse(r, ok)

\* the paginated Dashboard with clicks on the Value and Change headers
ChangeSortSpec == ChangeSortInit /\ [][ChangeSortNext]_vars

-----------------------------------------------------------------------------
(* Claims about the search boxes, checked under SearchSpec *)

\* the debounce delay has passed since the last effect run and no timer is left
Settled == elapsed >= Delay(box) /\ timers = {}

\* a burst: at least one change, each before the delay of the previous elapsed
Burst == Debounced(box) /\ gen > 0 /\ rapid

\* C1 (as stated): after a burst of changes of a debounced search box, once
\* the delay has passed, exactly one remote search has been issued, after the
\* last change, with the final input value.
C1_ExactlyOneSearch ==
    (Burst /\ Settled) => issued = <<Issue(inputValue, gen, gen)>>

\* C1 (amended): after a burst of changes, once the delay has passed, at most
\* one remote search has been issued: exactly one, scheduled by the last
\* change and carrying the final input value, when that value has at least
\* the minimum length, and none when it is shorter.
C1_OneSearchIfLongEnough ==
    (Burst /\ Settled) =>
        issued = IF Len(inputValue) >= MinLength(box)
                   THEN <<Issue(inputValue, gen, gen)>>
                   ELSE <<>>

\* C1 witness: a burst of three changes whose earlier timers were cancelled
\* has ended in exactly one search
C1_Witness ==
    /\ Burst /\ Settled
    /\ gen >= 3
    /\ cancelled >= 2
    /\ Len(issued) = 1

\* C2: while the input is shorter than the minimum length no timer is armed,
\* and no remote search is ever sent for a short keyword or by a timer of an
\* earlier effect run than the current one (the earlier timer was cancelled).
C2_NoSearchForShortInput ==
    /\ Len(inputValue) < MinLength(box) => timers = {}
    /\ \A t \in timers : t.keyword = inputValue /\ t.gen = gen
    /\ \A i \in 1..Len(issued) :
          /\ Len(issued[i].keyword) >= MinLength(box)
          /\ issued[i].run = issued[i].at

\* C2 witness: the input is short, the timer armed for an earlier longer
\* input was cancelled, the delay has passed and nothing was sent
C2_Witness ==
    /\ Len(inputValue) < MinLength(box)
    /\ Len(inputValue) > 0
    /\ cancelled > 0
    /\ elapsed >= Delay(box)
    /\ Debounced(box)
    /\ issued = <<>>

\* C3 (as stated): whenever the input is shorter than the minimum length the
\* option list is empty or is the list held right before the input became
\* short.
C3_ShortInputListEmptyOrHeld ==
    Len(inputValue) < MinLength(box) =>
        (options = <<>> \/ options = heldBeforeShort)

\* C4 (as stated): a response to a query of an earlier effect run never
\* replaces the option list once a later input value has been entered.
C4_NoStaleOverwrite ==
    [][\A r \in inflight :
          (inflight' = inflight \ {r} /\ gen' = gen /\ options' # options)
              => r.gen = gen]_vars

-----------------------------------------------------------------------------
(* Claims about the portfolio view, checked under PortfolioSpec / TwoTabSpec *)

\* the update of tab t's handleAddPosition returns without error in this step
AddUpdateSucceeds(t) == addOp[t].pc = "write" /\ addOp'[t].pc = "fetchProfile"

\* the update of tab t's handleAddPosition returns an error in this step
AddUpdateFails(t) == addOp[t].pc = "write" /\ addOp'[t].pc = "failed"

\* the entries of a list on the fields of the persisted layout
Persisted(list) == [i \in 1..Len(list) |-> [list[i] EXCEPT !.sentiment = NoSentiment]]

\* C5 (as stated): when an add of 10 shares at 150 succeeds and nothing else
\* wrote the row since the add began, the remote portfolio array is its
\* content before the add plus exactly one entry with shares = 10,
\* avg_price = 150 and an id no existing entry has.
C5_AddAppendsOneEntry ==
    [][\A t \in Tabs :
          (AddUpdateSucceeds(t) /\ addOp[t].start = userDetails.portfolio) =>
              /\ userDetails'.portfolio =
                    Append(userDetails.portfolio, addOp[t].newEntry)
              /\ addOp[t].newEntry.id \notin Ids(userDetails.portfolio)
              /\ addOp[t].newEntry.shares = 10
              /\ addOp[t].newEntry.avg_price = 150]_vars

\* C6 (as stated): the document written by handleRemove(id) is the document
\* it re-read with only the entry of that id deleted from the portfolio array
\* (entries compared on their persisted fields).
C6_RemoveWritesRereadMinusEntry ==
    [][\A t \in Tabs :
          (rmOp[t].pc = "write" /\ rmOp'[t].pc = "idle") =>
              /\ Persisted(userDetails'.portfolio) =
                    Persisted(RemoveId(rmOp[t].doc.portfolio, rmOp[t].id))
              /\ userDetails'.email = rmOp[t].doc.email]_vars

\* C7: handleRemove(id) takes the entry out of the local list in the step
\* that starts it, before its read or write has returned, and no later step
\* of that remove (a read or write returning, with or without an error)
\* changes the local list.
C7_RemoveIsOptimisticNoRollback ==
    [][\A t \in Tabs :
          /\ (rmOp'[t].pc = "read" /\ rmOp[t].pc # "read") =>
                rmOp'[t].id \notin Ids(view'[t].portfolio)
          /\ (rmOp[t].pc \in {"read", "write"} /\ rmOp'[t] # rmOp[t]) =>
                view'[t].portfolio = view[t].portfolio]_vars

\* C7 witness: a remove has failed; the row still holds the entry and the
\* local list does not
C7_Witness ==
    \E t \in Tabs :
       /\ rmOp[t].pc = "failed"
       /\ rmOp[t].id \in Ids(userDetails.portfolio)
       /\ rmOp[t].id \notin Ids(view[t].portfolio)

\* C8: no concurrency token: the array an add writes is the array that add
\* re-read plus its new entry, whatever the row holds when the update
\* arrives, so the last writer wins.
C8_LastWriterWins ==
    [][\A t \in Tabs :
          AddUpdateSucceeds(t) =>
              userDetails'.portfolio =
                  Append(addOp[t].read.portfolio, addOp[t].newEntry)]_vars

\* C8 witness: both tabs' updates have reported success, no read failed
\* (the entry stored before is still there) and the row lacks one of the two
\* added entries
C8_Witness ==
    /\ \A t \in Tabs : addOp[t].pc \in {"fetchProfile", "fetchTrend"}
    /\ 0 \in Ids(userDetails.portfolio)
    /\ \E t \in Tabs : addOp[t].newEntry.id \notin Ids(userDetails.portfolio)
    /\ \E t \in Tabs : addOp[t].newEntry.id \in Ids(userDetails.portfolio)

\* C9: in the step in which the update of an add returns an error, the local
\* list, the selected ticker, the shares and price inputs and the remote
\* document stay as they are and submitting goes from true to false.
C9_FailedAddLeavesState ==
    [][\A t \in Tabs :
          AddUpdateFails(t) =>
              /\ userDetails' = userDetails
              /\ view'[t].portfolio = view[t].portfolio
              /\ view'[t].selectedAsset = view[t].selectedAsset
              /\ view'[t].shares = view[t].shares
              /\ view'[t].price = view[t].price
              /\ view[t].submitting /\ ~view'[t].submitting]_vars

\* C9 witness: an add has failed with the form still filled in, the loaded
\* list still shown and the row as it was
C9_Witness ==
    \E t \in Tabs :
       /\ addOp[t].pc = "failed"
       /\ ~view[t].submitting
       /\ view[t].selectedAsset # NoAsset /\ view[t].shares # <<>> /\ view[t].price # <<>>
       /\ Len(view[t].portfolio) > 0
       /\ userDetails = InitialDetails

\* C10: handleAddPosition sends the re-read of the profile only when the
\* selected ticker, the shares, the price and the session are all present;
\* a call with one of them missing changes neither the view state nor the
\* remote document and starts no request.
C10_AddNeedsAllInputs ==
    [][\A t \in Tabs :
          /\ (addOp'[t].pc = "read" /\ addOp[t].pc # "read") =>
                /\ view[t].selectedAsset # NoAsset
                /\ view[t].shares # <<>>
                /\ view[t].price # <<>>
                /\ view[t].session
          /\ (addOp'[t].pc = "rejected" /\ addOp[t].pc # "rejected") =>
                /\ (view[t].selectedAsset = NoAsset \/ view[t].shares = <<>>
                      \/ view[t].price = <<>> \/ ~view[t].session)
                /\ UNCHANGED <<view, userDetails, rmOp, loadOp>>]_vars

\* C10 witness: a call with the price missing was turned away
C10_Witness ==
    \E t \in Tabs :
       /\ addOp[t].pc = "rejected"
       /\ view[t].session
       /\ view[t].selectedAsset # NoAsset /\ view[t].shares # <<>> /\ view[t].price = <<>>

-----------------------------------------------------------------------------
(* Claims about the session gate of the portfolio view *)

\* tab t sends a request to the backend in this step: a read or an update of
\* the profiles row, or a read of trending_tickers
RequestIssued(t) ==
    \/ loadOp'[t].pc \in {"profile", "trend"} /\ loadOp'[t].pc # loadOp[t].pc
    \/ addOp'[t].pc \in {"read", "write", "fetchProfile", "fetchTrend"}
          /\ addOp'[t].pc # addOp[t].pc
    \/ rmOp'[t].pc \in {"read", "write"} /\ rmOp'[t].pc # rmOp[t].pc

\* C11 (as stated): the view sends no read or write of the profiles table and
\* no trending_tickers read while its session is null.
C11_NoRequestWithoutSession ==
    [][\A t \in Tabs : RequestIssued(t) => view'[t].session]_vars

-----------------------------------------------------------------------------
(* Claims about the Navbar sign-in handling, checked under EnsureSpec *)

\* at least one invocation of ensureProfileExists ran and none is in progress
EnsureSettled ==
    /\ \E c \in Invocations : ensure[c] = "done"
    /\ \A c \in Invocations : ensure[c] \in {"idle", "done"}

\* C12 (as stated): once the invocations of ensureProfileExists for the user
\* have ended, exactly one insert has been issued if the profile was missing
\* and none if it existed.
C12_OneInsertIffMissing ==
    EnsureSettled => inserts = IF hadProfile THEN 0 ELSE 1

-----------------------------------------------------------------------------
(* Claims about the fund-detail view, checked under FundSpec *)

\* what the change cell of fund record f must show for symbol sym when f has
\* a previous record
ExpectedChange(f, sym) ==
    IF shareTable[PrevFund(f)][sym] = 0 THEN [kind |-> "NEW", diff |-> 0]
    ELSE [kind |-> "diff",
          diff |-> shareTable[f][sym] - shareTable[PrevFund(f)][sym]]

\* C13 (as stated): once all requests have settled, every row shown for the
\* selected fund record F, which has a previous record P, shows
\* shares(F) - shares(P) when P holds the symbol and NEW when it does not.
C13_DeltaAgainstPreviousRecord ==
    (fetches = {} /\ ~loadingHoldings /\ selectedFundId # 0
        /\ PrevFund(selectedFundId) # 0) =>
       \A i \in DOMAIN holdings :
          ChangeContent(holdings[i], prevHoldingsMap, hasPrevFund) =
              ExpectedChange(selectedFundId, holdings[i].symbol)

-----------------------------------------------------------------------------
(* Claims about the stock-detail holders table, checked under HoldersSpec *)

\* C14 (as stated): each company row shows the share count of the company's
\* latest fund record minus the share count of the symbol in the company's
\* immediately preceding fund record, and is flagged NEW when that preceding
\* record does not hold the symbol (checked for the companies whose latest
\* fund record holds the symbol).
C14_ChangeAgainstPrecedingRecord ==
    stockSearch = "done" =>
       \A c \in DOMAIN holders :
          stakes[c][MaxPeriods] > 0 =>
             IF stakes[c][MaxPeriods - 1] = 0
               THEN holders[c].isNewPosition
               ELSE /\ ~holders[c].isNewPosition
                    /\ holders[c].change =
                          stakes[c][MaxPeriods] - stakes[c][MaxPeriods - 1]

-----------------------------------------------------------------------------
(* Claims about the sortable tables, checked under TableSpec *)

\* the paginated Dashboard shows every holding of the fund, unfiltered, and
\* nothing is pending
CompleteSetLoaded ==
    /\ table = "dashboard"
    /\ mountOp.pc = "ready" /\ batches = {}
    /\ ~loading /\ ~loadingMore
    /\ searchTerm = ""
    /\ Len(tableData) = NumRows
    /\ {tableData[i] : i \in DOMAIN tableData} = 1..NumRows

\* C15 (as stated): once pagination has loaded the complete holdings set of
\* the fund, the denominator of every row's weight equals the sum of
\* value_usd over the loaded rows, so that the weights sum to 100%.
C15_WeightDenominatorIsLoadedSum ==
    CompleteSetLoaded => totalFundValue = SumValueUsd(tableData)

\* the last n header clicks were on the same column
SameColumnClicks(n) ==
    /\ Len(lastClicks) >= n
    /\ \A i \in (Len(lastClicks) - n + 1)..Len(lastClicks) :
          lastClicks[i].key = lastClicks[Len(lastClicks)].key

\* the sort configuration before the last n header clicks
SortBefore(n) == lastClicks[Len(lastClicks) - n + 1].before

\* C16 (as stated): in every sortable table, two clicks in succession on the
\* same column header return the sort configuration to what it was before
\* the two clicks.
C16_TwoClicksRestoreSort ==
    SameColumnClicks(2) => sortConfig = SortBefore(2)

\* C16 (amended): two clicks in succession on the header of the column the
\* table is sorted by return the sort configuration in FundsList,
\* TrendingPage, the paginated Dashboard and StockRankings; in the
\* client-sorted Dashboard, whose cycle is asc, desc, unsorted, it is three
\* clicks on a column that is the sort column or while the table is unsorted.
C16_ClicksOnSortColumnRestoreSort ==
    /\ (table # "dashboardClient" /\ SameColumnClicks(2)
           /\ SortBefore(2).key = lastClicks[Len(lastClicks)].key)
          => sortConfig = SortBefore(2)
    /\ (table = "dashboardClient" /\ SameColumnClicks(3)
           /\ SortBefore(3).key \in {lastClicks[Len(lastClicks)].key, "none"})
          => sortConfig = SortBefore(3)

\* the sort column of TrendingPage was clicked twice and both answers are in
C16_Witness ==
    /\ table = "trending" /\ SameColumnClicks(2)
    /\ SortBefore(2).key = lastClicks[Len(lastClicks)].key
    /\ sortConfig = InitialSort("trending")
    /\ batches = {} /\ tableData # <<>>

\* the rows of page 0 of the query the table shows
PageZeroOfCurrentQuery ==
    BatchData(table, NewBatch(0, sortConfig, searchTerm, TRUE, "sort"))

\* C17 (as stated): once the batch request sent by a click on a
\* remote-sortable column header has been answered and nothing else is
\* pending, the table is on page 0 and the list holds exactly the rows of
\* that answer, which are the first rows in the new order.
C17_ListHoldsSortAnswer ==
    (table \in PagedTables /\ lastSent = [origin |-> "sort", status |-> "ok"]
        /\ batches = {}) =>
       (page = 0 /\ tableData = PageZeroOfCurrentQuery)

\* C18 (as stated): once a batch shorter than the page size has been
\* received for the query the table shows, the scroll trigger sends no
\* next-page request until the sort or the search term changes.
C18_NoNextPageAfterShortBatch ==
    [][(ScrollTrigger) => ~shortSeen]_vars

\* C19 (as stated): the loaded row list never holds two rows with the same
\* primary key.
C19_NoDuplicateKeys ==
    Cardinality({tableData[i] : i \in DOMAIN tableData}) = Len(tableData)

\* C20 (as stated): the scroll trigger never sends a next-page request while
\* another batch request of the table is outstanding, so that at most one
\* batch request is in flight.
C20_ScrollNeverOverlaps ==
    [][(ScrollTrigger) => batches = {}]_vars

-----------------------------------------------------------------------------
(* Claims about the option lists, checked under OptionsSpec *)

\* C21 (as stated): the option list of a search box never holds two entries
\* with the same primary key (two stocks with one symbol, two funds with one
\* company name).
C21_NoDuplicateOptions ==
    \A i, j \in DOMAIN options : i # j => options[i] # options[j]

-----------------------------------------------------------------------------
(* Claims about the stock-detail view, checked under StockSpec *)

\* C22 (as stated): whenever the price API has answered with a rate-limit or
\* error-shaped payload, the series made of it for the chart is a fallback
\* series of exactly 52 points, not an empty one.
C22_FallbackSeriesOnErrorPayload ==
    \A c \in stockCalls :
       (c.pc = "rest" /\ c.payload \in ErrorShaped) => c.points = FallbackWeeks

\* the data the stock-detail view holds
StockData ==
    {stockView.holdings, stockView.stockHistory.owner, stockView.currentPrice,
     stockView.priceChange, stockView.companyOverview}

\* C27 (as stated): once all requests have settled, the holdings, the price
\* series, the current price, the price change and the company overview all
\* belong to the most recently searched ticker or are empty.
C27_DataOfLatestTicker ==
    stockCalls = {} => StockData \subseteq {"", lastSearched}

-----------------------------------------------------------------------------
(* Claims about the portfolio view at rest, checked under PortfolioSpec *)

\* no request of tab t's portfolio view is in flight
PortfolioAtRest(t) ==
    /\ loadOp[t].pc = "idle"
    /\ addOp[t].pc \in {"idle", "rejected", "failed"}
    /\ rmOp[t].pc \in {"idle", "failed"}

\* C29 (as stated): in the portfolio view, once no request is in flight, a
\* null session implies an empty local portfolio list.
C29_SignedOutPortfolioEmpty ==
    \A t \in tabs :
       (PortfolioAtRest(t) /\ ~view[t].session) => view[t].portfolio = <<>>

\* a step in which tab t's handleRemove ends at its re-read: the read
\* failed, currentData is null and `currentData.user_details` throws outside
\* any try block
RemoveThrows(t) == rmOp[t].pc = "read" /\ rmOp'[t].pc = "failed"

\* C23 (as stated): every backend query failure is caught per call: no failed
\* request and no response without data ends a handler of the portfolio view
\* in an uncaught exception.
C23_NoUncaughtException == [][\A t \in tabs : ~RemoveThrows(t)]_vars

-----------------------------------------------------------------------------
(* Claims about the Change column of the fund-detail view, checked under
   ChangeSortSpec *)

\* the rows run by share change in direction dir
OrderedByChange(s, dir) ==
    \A i, j \in DOMAIN s :
       i < j => IF dir = "asc" THEN ShareChange(s[i]) <= ShareChange(s[j])
                ELSE ShareChange(s[i]) >= ShareChange(s[j])

\* the latest request was sent by a click on the Change header, it was
\* answered with data, and no request is in flight
ChangeClickSettled ==
    /\ mountOp.pc = "ready"
    /\ sortConfig.key = "change"
    /\ lastSent = [origin |-> "sort", status |-> "ok"]
    /\ batches = {}

\* C24 (as stated): after a click on the Change header has settled, the
\* exhausted flag is set, so that no further batch is requested, and the table
\* shows every holding of the fund, ordered by shares_count minus the previous
\* period's shares (0 for a symbol absent from it) in the selected direction.
C24_ChangeSortWholeFund ==
    ChangeClickSettled =>
       /\ ~hasMore
       /\ Len(tableData) = Len(MatchingRows(searchTerm))
       /\ {tableData[i] : i \in DOMAIN tableData} =
             {MatchingRows(searchTerm)[i] : i \in DOMAIN MatchingRows(searchTerm)}
       /\ OrderedByChange(SortedHoldings(tableData, sortConfig), sortConfig.direction)

-----------------------------------------------------------------------------
(* Claims about the lists of FundsList and TrendingPage at rest, checked under
   TableSpec *)

\* the answer of the backend to the query the table shows now, unpaginated
CurrentResult ==
    ServerOrder(DbSortKey(table, sortConfig.key), sortConfig.direction, searchTerm)

\* batches 0..k of the current query, one after the other
FirstBatches(k) == Range(CurrentResult, 0, (k + 1) * BatchSize(table))

\* C25 (as stated): in FundsList and TrendingPage, once no request is in
\* flight, the row list is empty or the in-order, gap-free concatenation of
\* batches 0..k of the current (search term, sort key, direction) query for
\* some k not above the current page.
C25_ListIsPrefixOfCurrentQuery ==
    (table \in {"funds", "trending"} /\ mountOp.pc = "ready" /\ batches = {}) =>
       \/ tableData = <<>>
       \/ \E k \in 0..page : tableData = FirstBatches(k)

\* C26 (as stated): every loading flag returns to false: once no request of
\* an infinite-scroll table is in flight, whatever the outcomes were, its
\* loading and loadingMore flags are both false.
C26_FlagsClearedAtRest ==
    (table \in PagedTables /\ mountOp.pc = "ready" /\ batches = {}) =>
       (~loading /\ ~loadingMore)

-----------------------------------------------------------------------------
(* Claims about App, checked under AppSpec *)

\* C28 (as stated): whenever the view is 'dashboard', selectedCompany is
\* non-null, fundHistory is the non-empty history fetched for that company
\* and initialFundId is the id of its newest record.
C28_DashboardShowsSelectedCompany ==
    app.view = "dashboard" =>
       /\ app.selectedCompany # ""
       /\ app.fundHistory = app.selectedCompany
       /\ app.initialFundId = app.selectedCompany

\* C30 (as stated): after a company is selected, and until the user types
\* again, the search term of App stays empty and no fund-name search is
\* issued: no timer armed before the selection fires after it.
C30_SearchStaysClearedAfterSelection ==
    sinceSelect = "quiet" =>
       /\ app.searchTerm = <<>>
       /\ \A c \in appCalls : ~c.quiet

====
